---- MODULE Spec2Model ----
(***************************************************************************)
(* Point-in-time snapshot engine (fundamental_engine): the filing selector, *)
(* the filings index with its cutoff gate, XBRL best-fact selection, the    *)
(* statement parser and the snapshot builder.                               *)
(*                                                                          *)
(* Dates are day numbers (integers).  A datetime is a number of ticks:      *)
(* day * TicksPerDay + tick-of-day, where tick 0 is 00:00:00, tick          *)
(* EndOfDayTime is 23:59:59 and the last tick of a day is a time after      *)
(* 23:59:59 (23:59:59.5, which "%Y-%m-%dT%H:%M:%S.%f" can produce).         *)
(* An optional value is a sequence: <<>> is None, <<v>> is the value v.     *)
(*                                                                          *)
(* Specifications: SpecSelect (FilingSelector.select), SpecFact             *)
(* (select_best_fact_for_period), SpecRows (the row builders), SpecIndex    *)
(* (FilingsIndex.get_filings), SpecArchives (the archive loop of            *)
(* get_filings on a given list), Spec (build_edgar_snapshot), SpecGuard     *)
(* (build_edgar_snapshot with get_filings taken at its signature),          *)
(* SpecClient (EdgarClient.get_json and get_raw with cache and retries),    *)
(* SpecLimiter (TokenBucketRateLimiter.acquire from several threads),       *)
(* SpecAcquire (one call of acquire(1) on a SECRateLimiter, with fairness), *)
(* SpecMapper (CIKMapper), SpecFilter (filter_facts_by_period_type),        *)
(* SpecResolve (field resolution and the balance-sheet identity fallback)   *)
(* and SpecPost (the identity check, the derived metrics and                *)
(* write_snapshot).                                                         *)
(***************************************************************************)
EXTENDS Integers, Sequences, FiniteSets, TLC

VARIABLES
    pc,                 \* position of the operation under way
    cutoff_date,        \* the cutoff date of the call
    allow_amendments,   \* FilingSelector._allow_amendments
    filings,            \* the list handed to FilingSelector.select
    selected,           \* what select returned
    raised,             \* the exception the call ended with, "" when none
    fact_list,          \* the candidate facts handed to select_best_fact_for_period
    period_end,         \* the period end asked for
    best,               \* what select_best_fact_for_period returned (optional)
    filter_context,     \* the context type handed to filter_facts_by_period_type
    filtered,           \* what filter_facts_by_period_type returned
    cik_facts,          \* the companyfacts of the CIK: tag -> list of XBRLFact
    annual_mode,        \* annual (TRUE) or quarterly (FALSE) durations
    income_row,         \* what build_income_rows returned (optional)
    balance_row,        \* what build_balance_rows returned (optional)
    cashflow_row,       \* what build_cashflow_rows returned (optional)
    period_type,        \* the period-type filter of get_filings
    cfg_allow_amendments, \* EngineConfig.allow_amendments, as FilingsIndex reads it
    records,            \* get_filings: the records kept so far, then the list returned
    consumed,           \* submissions entries read so far by the call
    archives_seen,      \* archive descriptors iterated so far by the call
    fallback_kept,      \* some kept record took its acceptance from filingDate
    archive_kept,       \* some kept record came from an older-filings archive
    req_tickers,        \* SnapshotRequest.tickers
    req_include_amendments, \* SnapshotRequest.include_amendments
    cik_map,            \* build_edgar_snapshot: the resolved (ticker, cik) items, in order
    ticker_idx,         \* position of the per-ticker loop in cik_map (0: no build runs)
    filing_idx,         \* position of the loop over the selected filings
    all_income,         \* the rows collected for statements_income
    all_balance,        \* the rows collected for statements_balance
    all_cashflow,       \* the rows collected for statements_cashflow
    all_filings,        \* the rows collected for the filings table
    log,                \* the warnings and errors logged by the build
    used_facts,         \* the facts whose value filled a collected row
    select_raised,      \* the selector raised CutoffViolationError during the build
    company_rows,       \* the rows collected for company_master
    req_allow_estimates, \* SnapshotRequest.allow_estimates
    cfg_allow_estimates, \* EngineConfig.allow_estimates
    client_created,     \* build_edgar_snapshot has constructed its EdgarClient
    balance_df,         \* the statements_balance table handed to the identity check
    checked_df,         \* what check_balance_sheet_identity returned
    income_df,          \* the statements_income table handed to _compute_derived
    derived_df,         \* what _compute_derived returned
    result_tables,      \* SnapshotResult.tables handed to write_snapshot
    validate,           \* the validate argument of write_snapshot
    written,            \* the table names write_snapshot wrote, in order
    write_log,          \* the warnings write_snapshot logged
    archive_files,      \* filings.files of the submissions document: the archive descriptors
    archive_outcomes,   \* what the archive loop did with each descriptor so far
    request_sent,       \* some request went to the client (get_json was called)
    registry_raw,       \* company_tickers.json as the registry URL serves it
    mapper_map,         \* CIKMapper._map: ticker (upper) -> 10-digit CIK
    name_map,           \* CIKMapper._name_map: ticker (upper) -> company name
    registry_fetches,   \* get_json calls for the registry URL that returned it
    mapper_calls,       \* calls made on the mapper so far
    mapper_result,      \* what the last call on the mapper returned (optional)
    cache,              \* ResponseCache of the client: cache key -> payload
    fetched,            \* request -> payload of its latest successful call
    call,               \* the get_json/get_raw call under way or just ended
    attempt_number,     \* attempts of _fetch started by the call (tenacity's count)
    tokens_acquired,    \* rate-limit tokens acquired by the call
    gets_dispatched,    \* GETs dispatched by the call
    last_outcome,       \* what the last GET of the call came back with
    only_429,           \* every GET of the call so far came back with HTTP 429
    returned,           \* the payload the call returned (optional)
    calls_made,         \* get_json/get_raw calls started on the client so far
    rate,               \* TokenBucketRateLimiter._rate (tokens per tick)
    burst,              \* TokenBucketRateLimiter._burst
    tokens,             \* TokenBucketRateLimiter._tokens
    last_refill,        \* TokenBucketRateLimiter._last_refill
    now,                \* time.monotonic(), in ticks
    lock,               \* the thread holding TokenBucketRateLimiter._lock, 0 when free
    thread_pc,          \* position of each thread in acquire
    thread_n,           \* the n each thread asks acquire for
    thread_wake,        \* the time each sleeping thread's time.sleep ends
    granted             \* tokens deducted by acquire calls that returned

vars == <<pc, cutoff_date, allow_amendments, filings, selected, raised,
          fact_list, period_end, best, filter_context, filtered,
          cik_facts, annual_mode, income_row, balance_row, cashflow_row,
          period_type, cfg_allow_amendments, records, consumed, archives_seen,
          fallback_kept, archive_kept, req_tickers, req_include_amendments,
          cik_map, ticker_idx, filing_idx, all_income, all_balance, all_cashflow,
          all_filings, log, used_facts, select_raised,
          company_rows, req_allow_estimates, cfg_allow_estimates, client_created,
          balance_df, checked_df, income_df, derived_df, result_tables, validate,
          written, write_log, archive_files, archive_outcomes,
          request_sent, registry_raw, mapper_map, name_map, registry_fetches,
          mapper_calls, mapper_result,
          cache, fetched, call, attempt_number, tokens_acquired, gets_dispatched,
          last_outcome, only_429, returned, calls_made,
          rate, burst, tokens, last_refill, now, lock, thread_pc, thread_n,
          thread_wake, granted>>

post_vars == <<balance_df, checked_df, income_df, derived_df, result_tables, validate,
               written, write_log>>
archive_vars == <<archive_files, archive_outcomes>>
setup_vars == <<company_rows, req_allow_estimates, cfg_allow_estimates, client_created,
                post_vars, archive_vars>>
builder_vars == <<req_tickers, req_include_amendments, cik_map, ticker_idx, filing_idx,
                  all_income, all_balance, all_cashflow, all_filings, log, used_facts,
                  select_raised, setup_vars>>
mapper_vars == <<registry_raw, mapper_map, name_map, registry_fetches, mapper_calls,
                 mapper_result>>
client_vars == <<cache, fetched, call, attempt_number, tokens_acquired, gets_dispatched,
                 last_outcome, only_429, returned, calls_made>>
limiter_vars == <<rate, burst, tokens, last_refill, now, lock, thread_pc, thread_n,
                  thread_wake, granted>>
service_vars == <<request_sent, mapper_vars, client_vars, limiter_vars>>
index_vars == <<period_type, cfg_allow_amendments, records, consumed, archives_seen,
                fallback_kept, archive_kept>>
rows_vars == <<cik_facts, annual_mode, income_row, balance_row, cashflow_row>>

selector_vars == <<allow_amendments, filings, selected, raised>>
fact_vars == <<fact_list, period_end, best, filter_context, filtered>>

-----------------------------------------------------------------------------
(* Bounds of the model *)

MaxDay == 1
MaxFilings == 2
MaxFacts == 2
MaxRowFacts == 2
MaxEntries == 2
MaxArchives == 1
MaxTickers == 2
MaxCompanyFacts == 1

Days == 0..MaxDay

-----------------------------------------------------------------------------
(* utils/dates.py *)

EndOfDayTime == 1
TicksPerDay == EndOfDayTime + 2

\* datetime.datetime.combine(d, t)
Combine(d, t) == d * TicksPerDay + t

\* datetime.date()
DateOf(dt) == dt \div TicksPerDay

Datetimes == 0..(Combine(MaxDay, TicksPerDay - 1))



is_within_cutoff(acceptance_datetime, cutoff) ==
    LET cutoff_end == Combine(cutoff, EndOfDayTime)
    IN acceptance_datetime <= cutoff_end

-----------------------------------------------------------------------------
(* Generic list helpers, as Python computes them *)

\* the index max(seq, key=...) picks, given the list of the keys: the first
\* position whose key is maximal
ArgMaxFirst(keys) ==
    CHOOSE i \in 1..Len(keys) :
        /\ \A j \in 1..Len(keys) : keys[j] <= keys[i]
        /\ \A j \in 1..(i - 1) : keys[j] < keys[i]

\* the distinct values of a list, in order of first appearance
\* (the key order of a dict filled by iterating the list)
RECURSIVE DistinctInOrder(_)
DistinctInOrder(seq) ==
    IF seq = <<>> THEN <<>>
    ELSE LET front == DistinctInOrder(SubSeq(seq, 1, Len(seq) - 1))
             k == seq[Len(seq)]
         IN IF \E i \in 1..Len(front) : front[i] = k THEN front
            ELSE Append(front, k)

\* records.sort(key=lambda r: r.period_of_report, reverse=True): stable, descending
RECURSIVE SortByPeriodDesc(_)
SortByPeriodDesc(seq) ==
    IF seq = <<>> THEN <<>>
    ELSE LET front == SortByPeriodDesc(SubSeq(seq, 1, Len(seq) - 1))
             x == seq[Len(seq)]
             n == Cardinality({i \in 1..Len(front) :
                        front[i].period_of_report >= x.period_of_report})
         IN SubSeq(front, 1, n) \o <<x>> \o SubSeq(front, n + 1, Len(front))

Range(seq) == {seq[i] : i \in 1..Len(seq)}

\* all sequences over S of length at most n
SeqsUpTo(S, n) == UNION {[1..k -> S] : k \in 0..n}

\* optional values
None == <<>>
Some(v) == <<v>>
IsSome(o) == o /= <<>>
Get(o) == o[1]

-----------------------------------------------------------------------------
(* types.py, constants.py *)

ANNUAL_FORM_TYPES == {"10-K", "10-K/A", "10-KT", "10-KT/A"}
QUARTERLY_FORM_TYPES == {"10-Q", "10-Q/A"}
ALL_SUPPORTED_FORMS == ANNUAL_FORM_TYPES \cup QUARTERLY_FORM_TYPES

\* form.endswith("/A") on the form strings of the model
EndsWithAmendmentSuffix(form) == form \in {"10-K/A", "10-KT/A", "10-Q/A"}

FilingRecord(cik, accession, form_type, filing_date, acc_dt, p_end, ticker) ==
    [cik |-> cik, accession |-> accession, form_type |-> form_type,
     filing_date |-> filing_date, acceptance_datetime |-> acc_dt,
     period_of_report |-> p_end, ticker |-> ticker]

\* max(candidates, key=lambda r: r.acceptance_datetime)
MaxByAcceptance(cands) ==
    cands[ArgMaxFirst([i \in 1..Len(cands) |-> cands[i].acceptance_datetime])]

-----------------------------------------------------------------------------
(* snapshot/selector.py *)

\* the safety assertion looking at the first record only
ViolatesCutoffFirstOnly(recs, cutoff) ==
    recs /= <<>> /\ recs[1].acceptance_datetime > Combine(cutoff, EndOfDayTime)

\* the safety assertion of select: some record was accepted after the cutoff end

ViolatesCutoff(recs, cutoff) ==
    \E i \in 1..Len(recs) :
        recs[i].acceptance_datetime > Combine(cutoff, EndOfDayTime)

\* _pick_best without the amendment preference
pick_best_latest_only(candidates, allow) ==
    MaxByAcceptance(candidates)

pick_best(candidates, allow) ==
    LET amendments == SelectSeq(candidates,
                          LAMBDA c : EndsWithAmendmentSuffix(c.form_type))
        cands == IF allow /\ amendments /= <<>> THEN amendments ELSE candidates
    IN MaxByAcceptance(cands)

\* select without the final sort
select_unsorted(recs, allow) ==
    LET periods == DistinctInOrder([i \in 1..Len(recs) |-> recs[i].period_of_report])
    IN [k \in 1..Len(periods) |->
            pick_best(SelectSeq(recs,
                          LAMBDA r : r.period_of_report = periods[k]), allow)]

\* the grouping and choice of select (lines 79-90), once the assertion passed
select_body(recs, allow) ==
    LET periods == DistinctInOrder([i \in 1..Len(recs) |-> recs[i].period_of_report])
        chosen == [k \in 1..Len(periods) |->
                      pick_best(SelectSeq(recs,
                          LAMBDA r : r.period_of_report = periods[k]), allow)]
    IN SortByPeriodDesc(chosen)

\* FilingSelector.select: the exception raised ("" when none) and the list returned
select(recs, cutoff, allow) ==
    IF ViolatesCutoff(recs, cutoff)
    THEN [raised |-> "CutoffViolationError", value |-> <<>>]
    ELSE [raised |-> "", value |-> select_body(recs, allow)]

-----------------------------------------------------------------------------
(* edgar/filings_index.py.  A string of the submissions JSON is a record: k is *)
(* "missing" (the empty string, or an index beyond the array), "bad" (text no  *)
(* format parses), "date" ("YYYY-MM-DD", v the day) or "datetime" (a date and  *)
(* a time of day, v the ticks).  An accession number is its digits and its     *)
(* lay-out: "dashed" (NNNNNNNNNN-NN-NNNNNN), "raw18" (18 digits) or "other".   *)

StrMissing == [k |-> "missing", v |-> 0]
StrBad == [k |-> "bad", v |-> 0]
StrDate(d) == [k |-> "date", v |-> d]
StrDatetime(t) == [k |-> "datetime", v |-> t]

\* parse_date on a string: the date, or ValueError
parse_date(str) ==
    IF str.k = "date" THEN [raised |-> "", value |-> str.v]
    ELSE [raised |-> "ValueError", value |-> 0]

\* parse_datetime on a string: the datetime ("%Y-%m-%d" gives midnight), or ValueError
parse_datetime(str) ==
    IF str.k = "datetime" THEN [raised |-> "", value |-> str.v]
    ELSE IF str.k = "date" THEN [raised |-> "", value |-> Combine(str.v, 0)]
    ELSE [raised |-> "ValueError", value |-> 0]

\* the accession as _parse_filings formats it (lines 202-209)
NormalizeAccession(accession_raw) ==
    IF accession_raw.fmt \in {"dashed", "raw18"}
    THEN [digits |-> accession_raw.digits, fmt |-> "dashed"]
    ELSE accession_raw

get_allowed_forms(ptype, config_allow_amendments) ==
    LET allowed == IF ptype = "annual" THEN ANNUAL_FORM_TYPES
                   ELSE IF ptype = "quarterly" THEN QUARTERLY_FORM_TYPES
                   ELSE ALL_SUPPORTED_FORMS
    IN IF ~config_allow_amendments
       THEN {f \in allowed : ~EndsWithAmendmentSuffix(f)}
       ELSE allowed

\* the acceptance datetime of an entry (lines 180-189): [ok, value, fallback]
EntryAcceptance(e) ==
    IF e.acceptanceDateTime.k /= "missing"
    THEN LET r == parse_datetime(e.acceptanceDateTime)
         IN [ok |-> r.raised = "", value |-> r.value, fallback |-> FALSE]
    ELSE LET fd == parse_date(e.filingDate)
         IN [ok |-> fd.raised = "", value |-> Combine(fd.value, EndOfDayTime),
             fallback |-> TRUE]

\* the gate comparing the acceptance day with the day after the cutoff
PassesGateNextDay(acc_dt, cutoff) == acc_dt <= Combine(cutoff + 1, 0)

\* the PIT gate (lines 191-192)
PassesGate(acc_dt, cutoff) == is_within_cutoff(acc_dt, cutoff)

\* one pass of the loop of _parse_filings (lines 175-226): the record appended,
\* or None when the entry is skipped (a raise inside the try skips it too)
ParseEntry(e, cik, ticker, cutoff, allowed_forms) ==
    LET acc == EntryAcceptance(e)
        period == parse_date(e.reportDate)
        filing_date == parse_date(e.filingDate)
    IN IF e.form \notin allowed_forms THEN None
       ELSE IF ~acc.ok THEN None
       ELSE IF ~PassesGate(acc.value, cutoff) THEN None
       ELSE IF period.raised /= "" THEN None
       ELSE IF filing_date.raised /= "" THEN None
       ELSE Some(FilingRecord(cik, NormalizeAccession(e.accessionNumber), e.form,
                              filing_date.value, acc.value, period.value, ticker))

\* the archive loop with the test of filingFrom taken out of the block that
\* parses filingTo
ArchiveIsFetchedByStartAlone(archive, cutoff) ==
    /\ archive.name /= ""
    /\ ~(archive.filingFrom.k = "date" /\ archive.filingFrom.v > cutoff)

\* whether the archive loop fetches the archive (lines 89-105); a date string
\* that does not parse is passed over by the except clause
ArchiveIsFetched(archive, cutoff) ==
    /\ archive.name /= ""
    /\ ~ /\ archive.filingTo.k = "date"
         /\ archive.filingFrom.k = "date"
         /\ archive.filingFrom.v > cutoff

\* how one turn of the archive loop ends: lines 90-91 and 103 pass the archive
\* over, line 109 asks the client for it, line 119 logs a request that failed
ArchiveOutcome(archive, cutoff, ok) ==
    IF ~ArchiveIsFetched(archive, cutoff) THEN "skipped"
    ELSE IF ok THEN "fetched" ELSE "failed"

-----------------------------------------------------------------------------
(* edgar/xbrl/contexts.py: best-fact selection *)


Abs(x) == IF x < 0 THEN -x ELSE x

PERIOD_END_TOLERANCE_DAYS == 7

XBRLFact(tag, namespace, value, unit, start, end, accession, form, frame, filed) ==
    [tag |-> tag, namespace |-> namespace, value |-> value, unit |-> unit,
     start |-> start, end |-> end, accession |-> accession, form |-> form,
     frame |-> frame, filed |-> filed]

\* "if f.frame": the frame is present and not the empty string
HasFrame(f) == IsSome(f.frame) /\ Get(f.frame) /= ""

\* max(pool, key=lambda f: f.filed)
MaxByFiled(pool) == pool[ArgMaxFirst([i \in 1..Len(pool) |-> pool[i].filed])]

\* the absolute day distance of a fact's end from the period end
DayDistance(f, p_end) == Abs(f.end - p_end)

\* no cutoff filter at all
EligibleFactsAll(facts, cutoff) == facts

\* eligible = [f for f in facts if f.filed <= cutoff_date]
\* the filter letting through the facts filed on the day after the cutoff
EligibleFactsNextDay(facts, cutoff) == SelectSeq(facts, LAMBDA f : f.filed <= cutoff + 1)

EligibleFacts(facts, cutoff) == SelectSeq(facts, LAMBDA f : f.filed <= cutoff)

\* the pool narrowed to framed facts before any period matching
PreferFramedFirst(eligible, p_end) ==
    LET with_frame == SelectSeq(eligible, HasFrame)
        narrowed == IF with_frame /= <<>> THEN with_frame ELSE eligible
        exact == SelectSeq(narrowed, LAMBDA f : f.end = p_end)
        fuzzy == SelectSeq(narrowed,
                    LAMBDA f : DayDistance(f, p_end) <= PERIOD_END_TOLERANCE_DAYS)
    IN IF exact /= <<>> THEN Some(MaxByFiled(exact))
       ELSE IF fuzzy /= <<>> THEN Some(MaxByFiled(fuzzy))
       ELSE None

\* the fuzzy fallback without the minimum-distance step: the latest-filed fact
\* within the tolerance, however far its end lies from the period end
BestWithoutClosest(eligible, p_end) ==
    LET exact == SelectSeq(eligible, LAMBDA f : f.end = p_end)
        fuzzy == SelectSeq(eligible,
                    LAMBDA f : DayDistance(f, p_end) <= PERIOD_END_TOLERANCE_DAYS)
    IN IF exact /= <<>>
       THEN LET framed == SelectSeq(exact, HasFrame)
            IN Some(MaxByFiled(IF framed /= <<>> THEN framed ELSE exact))
       ELSE IF fuzzy /= <<>>
       THEN LET framed == SelectSeq(fuzzy, HasFrame)
            IN Some(MaxByFiled(IF framed /= <<>> THEN framed ELSE fuzzy))
       ELSE None

\* select_best_fact_for_period after the cutoff filter (lines 135-168)
BestAmongEligible(eligible, p_end) ==
    LET exact == SelectSeq(eligible, LAMBDA f : f.end = p_end)
        fuzzy == SelectSeq(eligible,
                    LAMBDA f : DayDistance(f, p_end) <= PERIOD_END_TOLERANCE_DAYS)
    IN IF eligible = <<>> THEN None
       ELSE IF exact /= <<>>
       THEN LET framed == SelectSeq(exact, HasFrame)
                pool == IF framed /= <<>> THEN framed ELSE exact
            IN Some(MaxByFiled(pool))
       ELSE IF fuzzy /= <<>>
       THEN LET dists == {DayDistance(fuzzy[i], p_end) : i \in 1..Len(fuzzy)}
                best_distance == CHOOSE d \in dists : \A e \in dists : d <= e
                closest == SelectSeq(fuzzy,
                              LAMBDA f : DayDistance(f, p_end) = best_distance)
                framed == SelectSeq(closest, HasFrame)
                pool == IF framed /= <<>> THEN framed ELSE closest
            IN Some(MaxByFiled(pool))
       ELSE None

select_best_fact_for_period(facts, p_end, cutoff) ==
    BestAmongEligible(EligibleFacts(facts, cutoff), p_end)

-----------------------------------------------------------------------------
(* Specification SpecFact: select_best_fact_for_period on any candidate list *)

\* the period end asked for lies far enough from day 0 for the ends below
FactPeriodEnd == PERIOD_END_TOLERANCE_DAYS + 1

EndOffsets == {0, 1, -1, PERIOD_END_TOLERANCE_DAYS, -PERIOD_END_TOLERANCE_DAYS,
               PERIOD_END_TOLERANCE_DAYS + 1}

FrameValues == {None, Some("CY2016")}

CandidateFacts ==
    {XBRLFact("Revenues", "us-gaap", 100, "USD", None, FactPeriodEnd + o, "", "10-K", fr, fd)
        : o \in EndOffsets, fr \in FrameValues, fd \in Days}

FactIdle ==
    /\ fact_list = <<>>
    /\ period_end = 0
    /\ best = None
    /\ filter_context = "" /\ filtered = <<>>

RowsIdle ==
    /\ cik_facts = <<>>
    /\ annual_mode = TRUE
    /\ income_row = None
    /\ balance_row = None
    /\ cashflow_row = None

PostIdle ==
    /\ balance_df = <<>> /\ checked_df = <<>> /\ income_df = <<>> /\ derived_df = <<>>
    /\ result_tables = <<>> /\ validate = FALSE /\ written = <<>> /\ write_log = <<>>

ArchiveListIdle == archive_files = <<>> /\ archive_outcomes = <<>>

BuilderFieldsIdle ==
    /\ req_tickers = <<>> /\ req_include_amendments = FALSE
    /\ cik_map = <<>> /\ ticker_idx = 0 /\ filing_idx = 0
    /\ all_income = <<>> /\ all_balance = <<>> /\ all_cashflow = <<>>
    /\ all_filings = <<>> /\ log = <<>> /\ used_facts = {}
    /\ select_raised = FALSE
    /\ company_rows = <<>>
    /\ req_allow_estimates = FALSE /\ cfg_allow_estimates = FALSE
    /\ client_created = FALSE
    /\ PostIdle

BuilderIdle == BuilderFieldsIdle /\ ArchiveListIdle

MapperIdle ==
    /\ registry_raw = <<>> /\ mapper_map = <<>> /\ name_map = <<>>
    /\ registry_fetches = 0 /\ mapper_calls = 0 /\ mapper_result = None

\* no GET of the call has come back yet
NoOutcome == [error |-> "none", status |-> 0, body |-> ""]

ClientIdle ==
    /\ cache = <<>> /\ fetched = {} /\ call = None
    /\ attempt_number = 0 /\ tokens_acquired = 0 /\ gets_dispatched = 0
    /\ last_outcome = NoOutcome /\ only_429 = TRUE /\ returned = None
    /\ calls_made = 0

LimiterIdle ==
    /\ rate = 1 /\ burst = 1 /\ tokens = 1 /\ last_refill = 0 /\ now = 0
    /\ lock = 0 /\ thread_pc = <<>> /\ thread_n = <<>> /\ thread_wake = <<>>
    /\ granted = 0

\* nothing outside the operation under study is in use
ServiceIdle ==
    /\ request_sent = FALSE
    /\ MapperIdle
    /\ ClientIdle
    /\ LimiterIdle

IndexIdle ==
    /\ period_type = "all" /\ cfg_allow_amendments = FALSE
    /\ records = <<>> /\ consumed = 0 /\ archives_seen = 0
    /\ fallback_kept = FALSE /\ archive_kept = FALSE

SelectorIdle ==
    /\ allow_amendments = FALSE
    /\ filings = <<>>
    /\ selected = <<>>
    /\ raised = ""

InitFact ==
    /\ pc = "select_best"
    /\ cutoff_date \in Days
    /\ period_end = FactPeriodEnd
    /\ fact_list \in SeqsUpTo(CandidateFacts, MaxFacts)
    /\ best = None
    /\ filter_context = "" /\ filtered = <<>>
    /\ SelectorIdle
    /\ RowsIdle
    /\ IndexIdle
    /\ BuilderIdle
    /\ ServiceIdle

SelectBestCall ==
    /\ pc = "select_best"
    /\ best' = select_best_fact_for_period(fact_list, period_end, cutoff_date)
    /\ pc' = "done"
    /\ UNCHANGED <<builder_vars, cutoff_date, fact_list, period_end, filter_context,
                   filtered, selector_vars, rows_vars, index_vars>>
    /\ UNCHANGED service_vars

NextFact == SelectBestCall

SpecFact == InitFact /\ [][NextFact]_vars

-----------------------------------------------------------------------------
(* utils/dates.py: period heuristics; edgar/xbrl/contexts.py: period-type filter *)

ANNUAL_MIN_DAYS == 330
ANNUAL_MAX_DAYS == 400
QUARTERLY_MIN_DAYS == 75
QUARTERLY_MAX_DAYS == 100

period_duration_days(start, end) == end - start

\* the annual heuristic with its bounds left out of the range
is_annual_period_exclusive(start, end) ==
    /\ IsSome(start)
    /\ ANNUAL_MIN_DAYS < period_duration_days(Get(start), end)
    /\ period_duration_days(Get(start), end) < ANNUAL_MAX_DAYS

\* start is an optional date
is_annual_period(start, end) ==
    /\ IsSome(start)
    /\ ANNUAL_MIN_DAYS <= period_duration_days(Get(start), end)
    /\ period_duration_days(Get(start), end) <= ANNUAL_MAX_DAYS

is_quarterly_period(start, end) ==
    /\ IsSome(start)
    /\ QUARTERLY_MIN_DAYS <= period_duration_days(Get(start), end)
    /\ period_duration_days(Get(start), end) <= QUARTERLY_MAX_DAYS

KeepsForPeriodType(fact, context_type, annual) ==
    IF context_type = "instant" THEN fact.start = None
    ELSE IF context_type = "duration"
    THEN /\ fact.start /= None
         /\ \/ annual /\ is_annual_period(fact.start, fact.end)
            \/ ~annual /\ is_quarterly_period(fact.start, fact.end)
    ELSE FALSE

filter_facts_by_period_type(facts, context_type, annual) ==
    SelectSeq(facts, LAMBDA f : KeepsForPeriodType(f, context_type, annual))

-----------------------------------------------------------------------------
(* Specification SpecFilter: filter_facts_by_period_type on any list of facts  *)
(* whose durations lie at and around the bounds of the two heuristics          *)

MaxFilterFacts == 2

FilterEnd == ANNUAL_MAX_DAYS + 1

\* (end - start).days of the facts with a start
FilterDurations ==
    {QUARTERLY_MIN_DAYS - 1, QUARTERLY_MIN_DAYS, QUARTERLY_MAX_DAYS, QUARTERLY_MAX_DAYS + 1,
     ANNUAL_MIN_DAYS - 1, ANNUAL_MIN_DAYS, ANNUAL_MAX_DAYS, ANNUAL_MAX_DAYS + 1}

FilterFacts ==
    {XBRLFact("Revenues", "us-gaap", 100, "USD", st, FilterEnd, "", "10-K", None, 0) :
        st \in {None} \cup {Some(FilterEnd - d) : d \in FilterDurations}}

InitFilter ==
    /\ pc = "filter"
    /\ cutoff_date = 0
    /\ fact_list \in SeqsUpTo(FilterFacts, MaxFilterFacts)
    /\ filter_context \in {"instant", "duration"}
    /\ annual_mode \in BOOLEAN
    /\ filtered = <<>>
    /\ period_end = 0 /\ best = None
    /\ cik_facts = <<>> /\ income_row = None /\ balance_row = None /\ cashflow_row = None
    /\ SelectorIdle
    /\ IndexIdle
    /\ BuilderIdle
    /\ ServiceIdle

FilterCall ==
    /\ pc = "filter"
    /\ filtered' = filter_facts_by_period_type(fact_list, filter_context, annual_mode)
    /\ pc' = "filtered"
    /\ UNCHANGED <<cutoff_date, fact_list, period_end, best, filter_context, selector_vars,
                   rows_vars, index_vars, builder_vars, service_vars>>

NextFilter == FilterCall

SpecFilter == InitFilter /\ [][NextFilter]_vars

-----------------------------------------------------------------------------
(* edgar/xbrl/mapper.py.  A fully-qualified tag "ns:Tag" is the pair <<ns, Tag>>. *)

TAG_PRIORITY_MAP == <<
    [standard_field |-> "revenue", sign_flip |-> FALSE, context_type |-> "duration",
     tags |-> <<<<"us-gaap", "Revenues">>,
              <<"us-gaap", "RevenueFromContractWithCustomerExcludingAssessedTax">>,
              <<"us-gaap", "RevenueFromContractWithCustomerIncludingAssessedTax">>,
              <<"us-gaap", "SalesRevenueNet">>, <<"us-gaap", "SalesRevenueGoodsNet">>,
              <<"us-gaap", "RevenuesNetOfInterestExpense">>>>],
    [standard_field |-> "cost_of_revenue", sign_flip |-> FALSE, context_type |-> "duration",
     tags |-> <<<<"us-gaap", "CostOfRevenue">>, <<"us-gaap", "CostOfGoodsAndServicesSold">>,
              <<"us-gaap", "CostOfGoodsSold">>, <<"us-gaap", "CostOfServices">>>>],
    [standard_field |-> "gross_profit", sign_flip |-> FALSE, context_type |-> "duration",
     tags |-> <<<<"us-gaap", "GrossProfit">>>>],
    [standard_field |-> "operating_expenses", sign_flip |-> FALSE, context_type |-> "duration",
     tags |-> <<<<"us-gaap", "OperatingExpenses">>, <<"us-gaap", "OperatingCostsAndExpenses">>>>],
    [standard_field |-> "ebit", sign_flip |-> FALSE, context_type |-> "duration",
     tags |-> <<<<"us-gaap", "OperatingIncomeLoss">>,
              <<"us-gaap", "IncomeLossFromContinuingOperationsBeforeIncomeTaxesExtraordinaryItemsNoncontrollingInterest">>>>],
    [standard_field |-> "ebitda", sign_flip |-> FALSE, context_type |-> "duration",
     tags |-> <<<<"us-gaap", "EarningsBeforeInterestTaxesDepreciationAmortization">>,
              <<"us-gaap", "EBITDA">>>>],
    [standard_field |-> "interest_expense", sign_flip |-> FALSE, context_type |-> "duration",
     tags |-> <<<<"us-gaap", "InterestExpense">>, <<"us-gaap", "InterestAndDebtExpense">>,
              <<"us-gaap", "InterestExpenseDebt">>>>],
    [standard_field |-> "pretax_income", sign_flip |-> FALSE, context_type |-> "duration",
     tags |-> <<<<"us-gaap", "IncomeLossFromContinuingOperationsBeforeIncomeTaxesExtraordinaryItemsNoncontrollingInterest">>, <<"us-gaap", "IncomeLossFromContinuingOperationsBeforeIncomeTaxesMinorityInterestAndIncomeLossFromEquityMethodInvestments">>>>],
    [standard_field |-> "income_tax_expense", sign_flip |-> FALSE, context_type |-> "duration",
     tags |-> <<<<"us-gaap", "IncomeTaxExpenseBenefit">>>>],
    [standard_field |-> "net_income", sign_flip |-> FALSE, context_type |-> "duration",
     tags |-> <<<<"us-gaap", "NetIncomeLoss">>, <<"us-gaap", "ProfitLoss">>,
              <<"us-gaap", "NetIncomeLossAvailableToCommonStockholdersBasic">>>>],
    [standard_field |-> "eps_basic", sign_flip |-> FALSE, context_type |-> "duration",
     tags |-> <<<<"us-gaap", "EarningsPerShareBasic">>>>],
    [standard_field |-> "eps_diluted", sign_flip |-> FALSE, context_type |-> "duration",
     tags |-> <<<<"us-gaap", "EarningsPerShareDiluted">>>>],
    [standard_field |-> "shares_basic", sign_flip |-> FALSE, context_type |-> "duration",
     tags |-> <<<<"us-gaap", "WeightedAverageNumberOfSharesOutstandingBasic">>>>],
    [standard_field |-> "shares_diluted", sign_flip |-> FALSE, context_type |-> "duration",
     tags |-> <<<<"us-gaap", "WeightedAverageNumberOfDilutedSharesOutstanding">>>>],
    [standard_field |-> "cash_and_equivalents", sign_flip |-> FALSE, context_type |-> "instant",
     tags |-> <<<<"us-gaap", "CashAndCashEquivalentsAtCarryingValue">>, <<"us-gaap", "Cash">>,
              <<"us-gaap", "CashCashEquivalentsAndShortTermInvestments">>>>],
    [standard_field |-> "short_term_investments", sign_flip |-> FALSE, context_type |-> "instant",
     tags |-> <<<<"us-gaap", "ShortTermInvestments">>,
              <<"us-gaap", "MarketableSecuritiesCurrent">>>>],
    [standard_field |-> "accounts_receivable", sign_flip |-> FALSE, context_type |-> "instant",
     tags |-> <<<<"us-gaap", "AccountsReceivableNetCurrent">>,
              <<"us-gaap", "ReceivablesNetCurrent">>>>],
    [standard_field |-> "inventory", sign_flip |-> FALSE, context_type |-> "instant",
     tags |-> <<<<"us-gaap", "InventoryNet">>, <<"us-gaap", "Inventories">>>>],
    [standard_field |-> "current_assets", sign_flip |-> FALSE, context_type |-> "instant",
     tags |-> <<<<"us-gaap", "AssetsCurrent">>>>],
    [standard_field |-> "ppe_net", sign_flip |-> FALSE, context_type |-> "instant",
     tags |-> <<<<"us-gaap", "PropertyPlantAndEquipmentNet">>,
              <<"us-gaap", "PropertyPlantAndEquipmentAndFinanceLeaseRightOfUseAssetAfterAccumulatedDepreciationAndAmortization">>>>],
    [standard_field |-> "goodwill", sign_flip |-> FALSE, context_type |-> "instant",
     tags |-> <<<<"us-gaap", "Goodwill">>>>],
    [standard_field |-> "intangibles", sign_flip |-> FALSE, context_type |-> "instant",
     tags |-> <<<<"us-gaap", "IntangibleAssetsNetExcludingGoodwill">>,
              <<"us-gaap", "FiniteLivedIntangibleAssetsNet">>>>],
    [standard_field |-> "total_assets", sign_flip |-> FALSE, context_type |-> "instant",
     tags |-> <<<<"us-gaap", "Assets">>>>],
    [standard_field |-> "accounts_payable", sign_flip |-> FALSE, context_type |-> "instant",
     tags |-> <<<<"us-gaap", "AccountsPayableCurrent">>,
              <<"us-gaap", "AccountsPayableAndAccruedLiabilitiesCurrent">>>>],
    [standard_field |-> "short_term_debt", sign_flip |-> FALSE, context_type |-> "instant",
     tags |-> <<<<"us-gaap", "LongTermDebtCurrent">>, <<"us-gaap", "ShortTermBorrowings">>,
              <<"us-gaap", "DebtCurrent">>>>],
    [standard_field |-> "current_liabilities", sign_flip |-> FALSE, context_type |-> "instant",
     tags |-> <<<<"us-gaap", "LiabilitiesCurrent">>>>],
    [standard_field |-> "long_term_debt", sign_flip |-> FALSE, context_type |-> "instant",
     tags |-> <<<<"us-gaap", "LongTermDebtNoncurrent">>, <<"us-gaap", "LongTermDebt">>,
              <<"us-gaap", "LongTermDebtAndCapitalLeaseObligations">>>>],
    [standard_field |-> "total_liabilities", sign_flip |-> FALSE, context_type |-> "instant",
     tags |-> <<<<"us-gaap", "Liabilities">>>>],
    [standard_field |-> "common_equity", sign_flip |-> FALSE, context_type |-> "instant",
     tags |-> <<<<"us-gaap", "StockholdersEquity">>, <<"us-gaap", "CommonStockholdersEquity">>>>],
    [standard_field |-> "retained_earnings", sign_flip |-> FALSE, context_type |-> "instant",
     tags |-> <<<<"us-gaap", "RetainedEarningsAccumulatedDeficit">>>>],
    [standard_field |-> "total_equity", sign_flip |-> FALSE, context_type |-> "instant",
     tags |-> <<<<"us-gaap", "StockholdersEquity">>,
              <<"us-gaap", "StockholdersEquityIncludingPortionAttributableToNoncontrollingInterest">>>>],
    [standard_field |-> "cfo", sign_flip |-> FALSE, context_type |-> "duration",
     tags |-> <<<<"us-gaap", "NetCashProvidedByUsedInOperatingActivities">>,
              <<"us-gaap", "NetCashProvidedByUsedInOperatingActivitiesContinuingOperations">>>>],
    [standard_field |-> "capex", sign_flip |-> TRUE, context_type |-> "duration",
     tags |-> <<<<"us-gaap", "PaymentsToAcquirePropertyPlantAndEquipment">>,
              <<"us-gaap", "PaymentsForCapitalImprovements">>,
              <<"us-gaap", "CapitalExpendituresIncurredButNotYetPaid">>>>],
    [standard_field |-> "cfi", sign_flip |-> FALSE, context_type |-> "duration",
     tags |-> <<<<"us-gaap", "NetCashProvidedByUsedInInvestingActivities">>,
              <<"us-gaap", "NetCashProvidedByUsedInInvestingActivitiesContinuingOperations">>>>],
    [standard_field |-> "cff", sign_flip |-> FALSE, context_type |-> "duration",
     tags |-> <<<<"us-gaap", "NetCashProvidedByUsedInFinancingActivities">>,
              <<"us-gaap", "NetCashProvidedByUsedInFinancingActivitiesContinuingOperations">>>>],
    [standard_field |-> "dividends_paid", sign_flip |-> TRUE, context_type |-> "duration",
     tags |-> <<<<"us-gaap", "PaymentsOfDividends">>,
              <<"us-gaap", "PaymentsOfDividendsCommonStock">>>>],
    [standard_field |-> "share_repurchases", sign_flip |-> TRUE, context_type |-> "duration",
     tags |-> <<<<"us-gaap", "PaymentsForRepurchaseOfCommonStock">>>>],
    [standard_field |-> "net_change_in_cash", sign_flip |-> FALSE, context_type |-> "duration",
     tags |-> <<<<"us-gaap", "CashCashEquivalentsRestrictedCashAndRestrictedCashEquivalentsPeriodIncreaseDecreaseIncludingExchangeRateEffect">>, <<"us-gaap", "CashAndCashEquivalentsPeriodIncreaseDecrease">>, <<"us-gaap", "NetCashProvidedByUsedInContinuingOperations">>>>],
    [standard_field |-> "depreciation_amortization", sign_flip |-> FALSE, context_type |-> "duration",
     tags |-> <<<<"us-gaap", "DepreciationDepletionAndAmortization">>,
              <<"us-gaap", "DepreciationAndAmortization">>, <<"us-gaap", "Depreciation">>>>],
    [standard_field |-> "stock_based_compensation", sign_flip |-> FALSE, context_type |-> "duration",
     tags |-> <<<<"us-gaap", "ShareBasedCompensation">>,
              <<"us-gaap", "AllocatedShareBasedCompensationExpense">>>>]
>>

\* the standard fields of a mapping table
StandardFields(table) == {table[i].standard_field : i \in 1..Len(table)}

\* {m.standard_field: m for m in table}[field]: the last row for the field
LastRowFor(table, field) ==
    table[CHOOSE i \in 1..Len(table) :
        /\ table[i].standard_field = field
        /\ \A j \in (i + 1)..Len(table) : table[j].standard_field /= field]

\* the fields of the rows of a context type
FieldsWithContext(table, ctx) ==
    {table[i].standard_field : i \in {j \in 1..Len(table) : table[j].context_type = ctx}}

MappedFields == StandardFields(TAG_PRIORITY_MAP)

\* FIELD_TO_MAPPING[field]
FIELD_TO_MAPPING(field) == LastRowFor(TAG_PRIORITY_MAP, field)

\* [m.standard_field for m in TAG_PRIORITY_MAP if m.context_type == ctx], as a set
FieldsOfContext(ctx) == FieldsWithContext(TAG_PRIORITY_MAP, ctx)

-----------------------------------------------------------------------------
(* edgar/xbrl/parser.py.  facts is a function from fully-qualified tags to     *)
(* lists of facts; a row is a record of its metadata and vals, the function    *)
(* from the field names set on the row to optional numbers.                    *)

\* facts.get(full_tag, [])
FactsGet(facts, full_tag) ==
    IF full_tag \in DOMAIN facts THEN facts[full_tag] ELSE <<>>

\* the fact the tag at position k of the mapping yields, if any
BestOfTag(tags, k, facts, ctx, p_end, cutoff, annual) ==
    select_best_fact_for_period(
        filter_facts_by_period_type(FactsGet(facts, tags[k]), ctx, annual),
        p_end, cutoff)

\* the first of two optional values that is set
OrElse(first, rest) == IF IsSome(first) THEN first ELSE rest

\* the loop over mapping.tags from position k: the fact of the first tag that yields one
RECURSIVE FirstBestFrom(_, _, _, _, _, _, _)
FirstBestFrom(tags, k, facts, ctx, p_end, cutoff, annual) ==
    IF k > Len(tags) THEN None
    ELSE OrElse(BestOfTag(tags, k, facts, ctx, p_end, cutoff, annual),
                FirstBestFrom(tags, k + 1, facts, ctx, p_end, cutoff, annual))

\* the loop without its early return: the fact of the last tag that yields one
RECURSIVE LastBestFrom(_, _, _, _, _, _, _)
LastBestFrom(tags, k, facts, ctx, p_end, cutoff, annual) ==
    IF k < 1 THEN None
    ELSE OrElse(BestOfTag(tags, k, facts, ctx, p_end, cutoff, annual),
                LastBestFrom(tags, k - 1, facts, ctx, p_end, cutoff, annual))

LastBestFact(tags, facts, ctx, p_end, cutoff, annual) ==
    LastBestFrom(tags, Len(tags), facts, ctx, p_end, cutoff, annual)

FirstBestFact(tags, facts, ctx, p_end, cutoff, annual) ==
    FirstBestFrom(tags, 1, facts, ctx, p_end, cutoff, annual)

\* best.value * sign, or None without a best fact
SignedValue(bestf, flip) ==
    IF IsSome(bestf) THEN Some(Get(bestf).value * (IF flip THEN -1 ELSE 1)) ELSE None

\* the loop of _resolve_duration_field for a mapping
ResolveDuration(mapping, facts, p_end, cutoff, annual) ==
    SignedValue(FirstBestFact(mapping.tags, facts, "duration", p_end, cutoff, annual),
                mapping.sign_flip)

resolve_duration_field(field_name, facts, p_end, cutoff, annual) ==
    IF field_name \notin MappedFields THEN None
    ELSE ResolveDuration(FIELD_TO_MAPPING(field_name), facts, p_end, cutoff, annual)

resolve_instant_field(field_name, facts, p_end, cutoff) ==
    IF field_name \notin MappedFields THEN None
    ELSE SignedValue(FirstBestFact(FIELD_TO_MAPPING(field_name).tags, facts, "instant",
                                   p_end, cutoff, TRUE), FALSE)

\* row.get(name)
RowGet(vals, name) == IF name \in DOMAIN vals THEN vals[name] ELSE None

RowMeta(self, filing_accession, p_end, asof_date, vals) ==
    [ticker |-> self.ticker, cik |-> self.cik, accession |-> filing_accession,
     asof_date |-> asof_date, period_end |-> p_end, source |-> "edgar", vals |-> vals]

AnyFound(vals) == \E f \in DOMAIN vals : IsSome(vals[f])

\* the row, or None when no field of it was found
RowIfFound(self, filing_accession, p_end, asof_date, vals) ==
    IF AnyFound(vals)
    THEN Some(RowMeta(self, filing_accession, p_end, asof_date, vals))
    ELSE None

\* the D&A value looked up for the EBITDA fallback (lines 104-116)
ebitda_da_val(facts, p_end, cutoff, annual) ==
    ResolveDuration(FIELD_TO_MAPPING("depreciation_amortization"), facts, p_end,
                    cutoff, annual)

\* lines 99-120: ebitda = ebit + D&A when ebitda was not found and both are
IncomeWithEbitda(resolved, da_val) ==
    IF /\ RowGet(resolved, "ebitda") = None
       /\ IsSome(RowGet(resolved, "ebit")) /\ IsSome(da_val)
    THEN [resolved EXCEPT !["ebitda"] = Some(Get(resolved["ebit"]) + Get(da_val))]
    ELSE resolved

build_income_rows(self, facts, filing_accession, p_end, cutoff, asof_date, annual) ==
    RowIfFound(self, filing_accession, p_end, asof_date,
        IncomeWithEbitda(
            [f \in FieldsOfContext("duration") |->
                resolve_duration_field(f, facts, p_end, cutoff, annual)],
            ebitda_da_val(facts, p_end, cutoff, annual)))

\* the fallback filling a missing total whenever assets or liabilities is
\* there, a second missing total counting as zero
BalanceWithIdentityEager(resolved, assets, liab, equity) ==
    IF assets = None /\ IsSome(liab)
    THEN [resolved EXCEPT !["total_assets"] =
            Some(Get(liab) + (IF IsSome(equity) THEN Get(equity) ELSE 0))]
    ELSE IF liab = None /\ IsSome(assets) /\ IsSome(equity)
    THEN [resolved EXCEPT !["total_liabilities"] = Some(Get(assets) - Get(equity))]
    ELSE IF equity = None /\ IsSome(assets) /\ IsSome(liab)
    THEN [resolved EXCEPT !["total_equity"] = Some(Get(assets) - Get(liab))]
    ELSE resolved

\* lines 164-176: the one missing member of assets = liabilities + equity
BalanceWithIdentity(resolved, assets, liab, equity) ==
    IF assets = None /\ IsSome(liab) /\ IsSome(equity)
    THEN [resolved EXCEPT !["total_assets"] = Some(Get(liab) + Get(equity))]
    ELSE IF liab = None /\ IsSome(assets) /\ IsSome(equity)
    THEN [resolved EXCEPT !["total_liabilities"] = Some(Get(assets) - Get(equity))]
    ELSE IF equity = None /\ IsSome(assets) /\ IsSome(liab)
    THEN [resolved EXCEPT !["total_equity"] = Some(Get(assets) - Get(liab))]
    ELSE resolved

BalanceFilled(resolved) ==
    BalanceWithIdentity(resolved, RowGet(resolved, "total_assets"),
                        RowGet(resolved, "total_liabilities"),
                        RowGet(resolved, "total_equity"))

build_balance_rows(self, facts, filing_accession, p_end, cutoff, asof_date) ==
    RowIfFound(self, filing_accession, p_end, asof_date,
        BalanceFilled([f \in FieldsOfContext("instant") |->
                          resolve_instant_field(f, facts, p_end, cutoff)]))

\* the value of a cashflow field as resolved, the sign left as it came
CashflowValueAsResolved(field_name, facts, p_end, cutoff, annual) ==
    resolve_duration_field(field_name, facts, p_end, cutoff, annual)

\* abs(value) when the mapping flips the sign (lines 215-216)
AbsIfFlipped(value, flip) ==
    IF IsSome(value) /\ flip THEN Some(Abs(Get(value))) ELSE value

\* one pass of the loop of build_cashflow_rows (lines 208-219)
CashflowValue(field_name, facts, p_end, cutoff, annual) ==
    AbsIfFlipped(resolve_duration_field(field_name, facts, p_end, cutoff, annual),
                 FIELD_TO_MAPPING(field_name).sign_flip)

\* lines 222-226: free_cash_flow = cfo - capex when both were found
CashflowWithFCF(resolved, cfo, capex) ==
    IF IsSome(cfo) /\ IsSome(capex)
    THEN [f \in DOMAIN resolved \cup {"free_cash_flow"} |->
            IF f = "free_cash_flow" THEN Some(Get(cfo) - Get(capex)) ELSE resolved[f]]
    ELSE resolved

CashflowFilled(resolved) ==
    CashflowWithFCF(resolved, RowGet(resolved, "cfo"), RowGet(resolved, "capex"))

build_cashflow_rows(self, facts, filing_accession, p_end, cutoff, asof_date, annual) ==
    RowIfFound(self, filing_accession, p_end, asof_date,
        CashflowFilled([f \in FieldsOfContext("duration") |->
                           CashflowValue(f, facts, p_end, cutoff, annual)]))

-----------------------------------------------------------------------------
(* Specification SpecRows: the three row builders of XBRLParser on the facts   *)
(* of one company, for one selected filing                                     *)

RowTags == {"PaymentsToAcquirePropertyPlantAndEquipment",
            "NetCashProvidedByUsedInOperatingActivities",
            "PaymentsOfDividends", "PaymentsForRepurchaseOfCommonStock",
            "Assets"}

RowValues == {-5, 3}

RowPeriodEnd == ANNUAL_MAX_DAYS

\* the start of a fact ending at e: none (instant), a year or a quarter before
RowStarts(e) == {None, Some(e - 365), Some(e - 90)}

RowFactUniverse ==
    {XBRLFact(t, "us-gaap", v, "USD", st, RowPeriodEnd, "0000320193-16-000070", "10-K", None, fd)
        : t \in RowTags, v \in RowValues, st \in RowStarts(RowPeriodEnd), fd \in 0..1}

\* the dict fetch_all_facts builds from the entries: "<ns>:<tag>" -> facts, in order
FactsByTag(entries) ==
    [k \in {<<entries[i].namespace, entries[i].tag>> : i \in 1..Len(entries)} |->
        SelectSeq(entries, LAMBDA f : <<f.namespace, f.tag>> = k)]

RowSelf == [ticker |-> "AAPL", cik |-> "0000320193"]
RowAccession == "0000320193-16-000070"

InitRows ==
    /\ pc = "income"
    /\ cutoff_date = 0
    /\ period_end = RowPeriodEnd
    /\ annual_mode \in BOOLEAN
    /\ \E entries \in SeqsUpTo(RowFactUniverse, MaxRowFacts) : cik_facts = FactsByTag(entries)
    /\ income_row = None /\ balance_row = None /\ cashflow_row = None
    /\ fact_list = <<>> /\ best = None
    /\ filter_context = "" /\ filtered = <<>>
    /\ SelectorIdle
    /\ IndexIdle
    /\ BuilderIdle
    /\ ServiceIdle

BuildIncome ==
    /\ pc = "income"
    /\ income_row' = build_income_rows(RowSelf, cik_facts, RowAccession, period_end,
                                       cutoff_date, cutoff_date, annual_mode)
    /\ pc' = "balance"
    /\ UNCHANGED <<builder_vars, cutoff_date, selector_vars, fact_vars, index_vars, cik_facts, annual_mode,
                   balance_row, cashflow_row>>
    /\ UNCHANGED service_vars

BuildBalance ==
    /\ pc = "balance"
    /\ balance_row' = build_balance_rows(RowSelf, cik_facts, RowAccession, period_end,
                                         cutoff_date, cutoff_date)
    /\ pc' = "cashflow"
    /\ UNCHANGED <<builder_vars, cutoff_date, selector_vars, fact_vars, index_vars, cik_facts, annual_mode,
                   income_row, cashflow_row>>
    /\ UNCHANGED service_vars

BuildCashflow ==
    /\ pc = "cashflow"
    /\ cashflow_row' = build_cashflow_rows(RowSelf, cik_facts, RowAccession, period_end,
                                           cutoff_date, cutoff_date, annual_mode)
    /\ pc' = "done"
    /\ UNCHANGED <<builder_vars, cutoff_date, selector_vars, fact_vars, index_vars, cik_facts, annual_mode,
                   income_row, balance_row>>
    /\ UNCHANGED service_vars

NextRows == BuildIncome \/ BuildBalance \/ BuildCashflow

SpecRows == InitRows /\ [][NextRows]_vars

-----------------------------------------------------------------------------
(* Specification SpecResolve: the row builders on facts of fields that have    *)
(* fallback tags (capex, total_equity) and of the three balance-sheet totals   *)

MaxResolveFacts == 3

ResolveFact(tag, value, start, filed) ==
    XBRLFact(tag, "us-gaap", value, "USD", start, RowPeriodEnd, RowAccession, "10-K", None, filed)

\* capex under its first tag (annual or quarterly, filed by the cutoff or
\* after it) and under its second tag; the totals, equity under both of its
\* tags; a fact of an instant tag that carries a start
ResolveFactUniverse ==
    {ResolveFact("PaymentsToAcquirePropertyPlantAndEquipment", v, Some(RowPeriodEnd - d), fd) :
        v \in RowValues, d \in {365, 90}, fd \in 0..1}
    \cup {ResolveFact("PaymentsForCapitalImprovements", 7, Some(RowPeriodEnd - 365), 0),
          ResolveFact("Assets", 9, Some(RowPeriodEnd - 365), 0),
          ResolveFact("Liabilities", 5, None, 0),
          ResolveFact("StockholdersEquityIncludingPortionAttributableToNoncontrollingInterest",
                      4, None, 0)}
    \cup {ResolveFact(t, 8, None, fd) : t \in {"Assets"}, fd \in 0..1}
    \cup {ResolveFact(t, 3, None, fd) : t \in {"StockholdersEquity"}, fd \in 0..1}

InitResolve ==
    /\ pc = "income"
    /\ cutoff_date = 0
    /\ period_end = RowPeriodEnd
    /\ annual_mode = TRUE
    /\ \E entries \in SeqsUpTo(ResolveFactUniverse, MaxResolveFacts) :
          cik_facts = FactsByTag(entries)
    /\ income_row = None /\ balance_row = None /\ cashflow_row = None
    /\ fact_list = <<>> /\ best = None
    /\ filter_context = "" /\ filtered = <<>>
    /\ SelectorIdle
    /\ IndexIdle
    /\ BuilderIdle
    /\ ServiceIdle

SpecResolve == InitResolve /\ [][NextRows]_vars

-----------------------------------------------------------------------------
(* Specification SpecSelect: FilingSelector.select on any list of records *)

SelectorForms == {"10-K", "10-K/A"}

SelectorRecords ==
    {FilingRecord("0000320193", "0000320193-22-000100", f, DateOf(a), a, p, "")
        : f \in SelectorForms, a \in Datetimes, p \in Days}

InitSelect ==
    /\ pc = "select"
    /\ cutoff_date \in Days
    /\ allow_amendments \in BOOLEAN
    /\ filings \in SeqsUpTo(SelectorRecords, MaxFilings)
    /\ selected = <<>>
    /\ raised = ""
    /\ FactIdle
    /\ RowsIdle
    /\ IndexIdle
    /\ BuilderIdle
    /\ ServiceIdle

SelectCall ==
    /\ pc = "select"
    /\ LET res == select(filings, cutoff_date, allow_amendments)
       IN /\ selected' = res.value
          /\ raised' = res.raised
    /\ pc' = "done"
    /\ UNCHANGED <<builder_vars, cutoff_date, allow_amendments, filings, fact_vars, rows_vars, index_vars>>
    /\ UNCHANGED service_vars

NextSelect == SelectCall

SpecSelect == InitSelect /\ [][NextSelect]_vars

-----------------------------------------------------------------------------
(* Specification SpecIndex: FilingsIndex.get_filings for one company.  Each    *)
(* submissions entry is read as the loop of _parse_filings reaches it; the     *)
(* entries lie around the gate: accepted at 00:00:00 and 23:59:59 of the       *)
(* cutoff day, just after 23:59:59, and at 00:00:00 of the next day; every     *)
(* date of an entry is relative to the cutoff, which is the last day.          *)

IndexForms == {"10-K", "10-K/A", "10-Q"}
IndexCik == "0000320193"
IndexTicker == "AAPL"

GateTimes(cutoff) ==
    {Combine(cutoff, 0), Combine(cutoff, EndOfDayTime),
     Combine(cutoff, EndOfDayTime + 1), Combine(cutoff + 1, 0)}

IndexEntries(cutoff) ==
    [form : IndexForms,
     acceptanceDateTime : {StrMissing, StrBad} \cup {StrDatetime(t) : t \in GateTimes(cutoff)},
     filingDate : {StrMissing, StrDate(cutoff), StrDate(cutoff + 1)},
     reportDate : {StrMissing, StrDate(cutoff), StrDate(cutoff - 1)},
     accessionNumber : {[digits |-> 22000100, fmt |-> "raw18"]}]

ArchiveDescriptors(cutoff) ==
    [name : {"", "CIK0000320193-submissions-001.json"},
     filingFrom : {StrMissing, StrBad, StrDate(cutoff), StrDate(cutoff + 1)},
     filingTo : {StrMissing, StrBad, StrDate(cutoff + 1)}]

\* whether get_filings runs for build_edgar_snapshot, and for which item of cik_map
InBuilder == ticker_idx > 0
CurrentTicker == IF InBuilder THEN cik_map[ticker_idx].ticker ELSE IndexTicker
CurrentCik == IF InBuilder THEN cik_map[ticker_idx].cik ELSE IndexCik

\* the entries a company's submissions hold during a build: one fiscal period,
\* original or amended, accepted within the cutoff or on the next day
BuilderEntries(cutoff) ==
    [form : {"10-K", "10-K/A"},
     acceptanceDateTime : {StrMissing, StrDatetime(Combine(cutoff + 1, 0))},
     filingDate : {StrDate(cutoff)},
     reportDate : {StrDate(cutoff - 1)},
     accessionNumber : {[digits |-> 22000100, fmt |-> "raw18"]}]

EntryDomain == IF InBuilder THEN BuilderEntries(cutoff_date) ELSE IndexEntries(cutoff_date)

\* where control goes when get_filings returns, and when it raises
AfterGetFilings == IF InBuilder THEN "select" ELSE "done"
AfterRaise == IF InBuilder THEN "except" ELSE "done"

InitIndex ==
    /\ pc = "get_filings"
    /\ cutoff_date = MaxDay
    /\ period_type \in {"annual", "quarterly", "all"}
    /\ cfg_allow_amendments \in BOOLEAN
    /\ records = <<>> /\ consumed = 0 /\ archives_seen = 0
    /\ fallback_kept = FALSE /\ archive_kept = FALSE
    /\ SelectorIdle
    /\ FactIdle
    /\ RowsIdle
    /\ BuilderIdle
    /\ ServiceIdle

\* the record list after one more entry of a batch went through _parse_filings
ParseNextEntry(e, from_archive) ==
    LET allowed_forms == get_allowed_forms(period_type, cfg_allow_amendments)
        rec == ParseEntry(e, CurrentCik, CurrentTicker, cutoff_date, allowed_forms)
    IN /\ consumed' = consumed + 1
       /\ records' = IF IsSome(rec) THEN Append(records, Get(rec)) ELSE records
       /\ fallback_kept' = (fallback_kept \/ (IsSome(rec) /\ EntryAcceptance(e).fallback))
       /\ archive_kept' = (archive_kept \/ (IsSome(rec) /\ from_archive))

\* line 79: the primary submissions document is fetched, or the request raises
FetchSubmissions ==
    /\ pc = "get_filings"
    /\ \E ok \in BOOLEAN :
          IF ok THEN pc' = "primary" /\ raised' = raised
          ELSE pc' = AfterRaise /\ raised' = "HTTPError"
    /\ UNCHANGED <<builder_vars, cutoff_date, allow_amendments, filings, selected, fact_vars,
                   rows_vars, index_vars>>
    /\ request_sent' = TRUE
    /\ UNCHANGED <<mapper_vars, client_vars, limiter_vars>>

\* line 84: one entry of filings.recent
ParsePrimaryEntry ==
    /\ pc = "primary"
    /\ consumed < MaxEntries
    /\ \E e \in EntryDomain : ParseNextEntry(e, FALSE)
    /\ UNCHANGED <<builder_vars, pc, cutoff_date, selector_vars, fact_vars, rows_vars,
                   period_type, cfg_allow_amendments, archives_seen>>
    /\ UNCHANGED service_vars

\* filings.recent is exhausted
EndPrimary ==
    /\ pc = "primary"
    /\ pc' = "archives"
    /\ UNCHANGED <<builder_vars, cutoff_date, selector_vars, fact_vars, rows_vars, index_vars>>
    /\ UNCHANGED service_vars

\* lines 88-109: the next archive descriptor; it is passed over, or its fetch
\* fails (line 119), or its entries are parsed next
NextArchive ==
    /\ pc = "archives"
    /\ archives_seen < MaxArchives
    /\ archives_seen' = archives_seen + 1
    /\ \E archive \in ArchiveDescriptors(cutoff_date), ok \in BOOLEAN :
          /\ pc' = IF ArchiveIsFetched(archive, cutoff_date) /\ ok
                   THEN "archive" ELSE "archives"
          /\ request_sent' = (request_sent \/ ArchiveIsFetched(archive, cutoff_date))
    /\ UNCHANGED <<mapper_vars, client_vars, limiter_vars>>
    /\ UNCHANGED <<builder_vars, cutoff_date, selector_vars, fact_vars, rows_vars, period_type,
                   cfg_allow_amendments, records, consumed, fallback_kept, archive_kept>>

\* lines 110-114: one entry of a fetched archive
ParseArchiveEntry ==
    /\ pc = "archive"
    /\ consumed < MaxEntries
    /\ \E e \in EntryDomain : ParseNextEntry(e, TRUE)
    /\ UNCHANGED <<builder_vars, pc, cutoff_date, selector_vars, fact_vars, rows_vars,
                   period_type, cfg_allow_amendments, archives_seen>>
    /\ UNCHANGED service_vars

\* the archive is exhausted
EndArchive ==
    /\ pc = "archive"
    /\ pc' = "archives"
    /\ UNCHANGED <<builder_vars, cutoff_date, selector_vars, fact_vars, rows_vars, index_vars>>
    /\ UNCHANGED service_vars

\* lines 122-132: no archive is left; raise on an empty list, else sort and
\* return (the counters of the call end with it)
ReturnFilings ==
    /\ pc = "archives"
    /\ IF records = <<>>
       THEN raised' = "FilingNotFoundError" /\ records' = records /\ pc' = AfterRaise
       ELSE /\ raised' = raised /\ records' = SortByPeriodDesc(records)
            /\ pc' = AfterGetFilings
    /\ consumed' = 0 /\ archives_seen' = 0
    /\ UNCHANGED <<builder_vars, cutoff_date, allow_amendments, filings, selected, fact_vars,
                   rows_vars, period_type, cfg_allow_amendments, fallback_kept,
                   archive_kept>>
    /\ UNCHANGED service_vars

NextIndex ==
    \/ FetchSubmissions
    \/ ParsePrimaryEntry
    \/ EndPrimary
    \/ NextArchive
    \/ ParseArchiveEntry
    \/ EndArchive
    \/ ReturnFilings

SpecIndex == InitIndex /\ [][NextIndex]_vars

-----------------------------------------------------------------------------
(* config_resolver.py, edgar/cik_map.py *)

\* a resolution in which the engine config decides allow_estimates
resolve_config_from_config(request, config) ==
    [allow_amendments |-> request.include_amendments,
     allow_estimates |-> config.allow_estimates]

\* resolve_config: the request's flags are the resolved flags
resolve_config(request, config) ==
    [allow_amendments |-> request.include_amendments,
     allow_estimates |-> request.allow_estimates]

\* ResolvedConfig.assert_pit_safe: the exception it raises, "" when none
assert_pit_safe(resolved) == IF resolved.allow_estimates THEN "ValueError" ELSE ""

\* ticker.strip().upper()
Upper(ticker) == IF ticker = "aapl" THEN "AAPL" ELSE ticker

\* CIKMapper._map once company_tickers.json is loaded
REGISTRY == [t \in {"AAPL", "MSFT"} |->
                IF t = "AAPL" THEN "0000320193" ELSE "0000789019"]

\* CIKMapper._name_map once company_tickers.json is loaded
REGISTRY_NAMES == [t \in {"AAPL", "MSFT"} |->
                      IF t = "AAPL" THEN "Apple Inc." ELSE "Microsoft Corp"]

Resolves(ticker) == Upper(ticker) \in DOMAIN REGISTRY

\* resolve_many: the dict ticker -> cik of the tickers that resolve, as its items
resolve_many(tickers) ==
    LET keys == DistinctInOrder(SelectSeq(tickers, Resolves))
    IN [i \in 1..Len(keys) |-> [ticker |-> keys[i], cik |-> REGISTRY[Upper(keys[i])]]]

\* the warnings resolve_many logs, one for each ticker that does not resolve
LookupWarnings(tickers) ==
    LET missing == SelectSeq(tickers, LAMBDA t : ~Resolves(t))
    IN [i \in 1..Len(missing) |->
            [level |-> "warning", ticker |-> missing[i], error |-> "CIKLookupError"]]

-----------------------------------------------------------------------------
(* snapshot/builder.py: build_edgar_snapshot.  Specification Spec runs it with *)
(* the filings index above; the facts of a company are revenue (a year's       *)
(* duration) and total assets (an instant) of the one fiscal period, filed on  *)
(* the cutoff day or on the day after.                                         *)

RequestTickers == {"AAPL", "aapl", "ZZZZ"}

BuilderFactUniverse(cutoff) ==
    {XBRLFact("Revenues", "us-gaap", 3, "USD", Some(cutoff - 1 - 365), cutoff - 1,
              "0000320193-22-000100", "10-K", None, fd) : fd \in {cutoff, cutoff + 1}}
    \cup
    {XBRLFact("Assets", "us-gaap", 7, "USD", None, cutoff - 1,
              "0000320193-22-000100", "10-K", None, fd) : fd \in {cutoff, cutoff + 1}}

\* lines 96-106: the rows of company_master, one for each resolved ticker
CompanyRows(items) ==
    [i \in 1..Len(items) |->
        [ticker |-> items[i].ticker, cik |-> items[i].cik,
         company_name |-> REGISTRY_NAMES[Upper(items[i].ticker)]]]

\* snapshot/coverage.py lines 50-62: the tickers with a row in a statement table
PresentTickers(income, balance, cashflow) ==
    {r.ticker : r \in Range(income) \cup Range(balance) \cup Range(cashflow)}

\* build_coverage_report: found and missing are computed (lines 61-62), then
\* CoverageReport is constructed with keywords its dataclass does not declare
\* (lines 123-131 against types.py lines 98-102), which raises TypeError
build_coverage_report(requested, income, balance, cashflow) ==
    [found |-> SelectSeq(requested,
                         LAMBDA t : t \in PresentTickers(income, balance, cashflow)),
     missing |-> SelectSeq(requested,
                           LAMBDA t : t \notin PresentTickers(income, balance, cashflow)),
     raised |-> "TypeError"]

InitBuild ==
    /\ pc = "build"
    /\ cutoff_date = MaxDay
    /\ period_type \in {"annual", "quarterly"}
    /\ cfg_allow_amendments \in BOOLEAN
    /\ req_include_amendments \in BOOLEAN
    /\ req_allow_estimates \in BOOLEAN
    /\ cfg_allow_estimates \in BOOLEAN
    /\ company_rows = <<>> /\ client_created = FALSE
    /\ PostIdle
    /\ ArchiveListIdle
    /\ ServiceIdle
    /\ req_tickers \in SeqsUpTo(RequestTickers, MaxTickers)
    /\ cik_map = <<>> /\ ticker_idx = 0 /\ filing_idx = 0
    /\ all_income = <<>> /\ all_balance = <<>> /\ all_cashflow = <<>>
    /\ all_filings = <<>> /\ log = <<>> /\ used_facts = {}
    /\ select_raised = FALSE
    /\ records = <<>> /\ consumed = 0 /\ archives_seen = 0
    /\ fallback_kept = FALSE /\ archive_kept = FALSE
    /\ SelectorIdle
    /\ FactIdle
    /\ RowsIdle

\* the per-ticker loop moves to the next item of cik_map, its locals unbound
AdvanceTicker ==
    /\ ticker_idx' = ticker_idx + 1
    /\ pc' = IF ticker_idx + 1 > Len(cik_map) THEN "assemble" ELSE "get_filings"
    /\ records' = <<>> /\ consumed' = 0 /\ archives_seen' = 0
    /\ fallback_kept' = FALSE /\ archive_kept' = FALSE
    /\ selected' = <<>> /\ cik_facts' = <<>> /\ filing_idx' = 0

\* lines 76-78: the flags are resolved and the resolved configuration is
\* checked; allow_estimates ends the call with ValueError
AssertPitSafe ==
    /\ pc = "build"
    /\ LET resolved == resolve_config([include_amendments |-> req_include_amendments,
                                       allow_estimates |-> req_allow_estimates],
                                      [allow_amendments |-> cfg_allow_amendments,
                                       allow_estimates |-> cfg_allow_estimates])
       IN IF assert_pit_safe(resolved) /= ""
          THEN /\ raised' = assert_pit_safe(resolved) /\ pc' = "done"
               /\ allow_amendments' = allow_amendments
          ELSE /\ raised' = raised /\ pc' = "client"
               /\ allow_amendments' = resolved.allow_amendments
    /\ UNCHANGED <<cutoff_date, filings, selected, fact_vars, index_vars, rows_vars,
                   builder_vars, service_vars>>

\* lines 80-81: the client and the mapper are constructed
OpenClient ==
    /\ pc = "client"
    /\ client_created' = TRUE
    /\ pc' = "load"
    /\ UNCHANGED <<cutoff_date, selector_vars, fact_vars, index_vars, rows_vars,
                   req_tickers, req_include_amendments, cik_map, ticker_idx, filing_idx,
                   all_income, all_balance, all_cashflow, all_filings, log, used_facts,
                   select_raised, company_rows, req_allow_estimates, cfg_allow_estimates,
                   post_vars, archive_vars, service_vars>>

\* lines 82-113: the registry is loaded (the request for it may raise, outside
\* any handler), the tickers are resolved, company_master is filled
StartBuild ==
    /\ pc = "load"
    /\ request_sent' = TRUE
    /\ \E loaded \in BOOLEAN :
          IF loaded
          THEN /\ mapper_map' = REGISTRY /\ name_map' = REGISTRY_NAMES
               /\ registry_fetches' = registry_fetches + 1
               /\ cik_map' = resolve_many(req_tickers)
               /\ log' = LookupWarnings(req_tickers)
               /\ company_rows' = CompanyRows(resolve_many(req_tickers))
               /\ annual_mode' = (period_type = "annual")
               /\ ticker_idx' = 1
               /\ pc' = IF resolve_many(req_tickers) = <<>> THEN "assemble" ELSE "get_filings"
               /\ raised' = raised
          ELSE /\ raised' = "HTTPError" /\ pc' = "done"
               /\ UNCHANGED <<cik_map, log, annual_mode, ticker_idx, company_rows,
                              mapper_map, name_map, registry_fetches>>
    /\ UNCHANGED <<cutoff_date, allow_amendments, filings, selected, fact_vars, index_vars,
                   cik_facts, income_row, balance_row, cashflow_row, req_tickers,
                   req_include_amendments, filing_idx, all_income, all_balance,
                   all_cashflow, all_filings, used_facts, select_raised,
                   req_allow_estimates, cfg_allow_estimates, client_created, post_vars,
                   archive_vars, registry_raw, mapper_calls, mapper_result, client_vars, limiter_vars>>

\* line 124: selector.select(raw_filings, request.cutoff_date); raw_filings is
\* not read again
SelectFilings ==
    /\ pc = "select"
    /\ LET res == select(records, cutoff_date, allow_amendments)
       IN IF res.raised /= ""
          THEN /\ raised' = res.raised /\ select_raised' = TRUE
               /\ pc' = "except" /\ selected' = selected
          ELSE /\ selected' = res.value /\ pc' = "fetch_facts"
               /\ raised' = raised /\ select_raised' = select_raised
    /\ records' = <<>> /\ fallback_kept' = FALSE /\ archive_kept' = FALSE
    /\ UNCHANGED <<cutoff_date, allow_amendments, filings, fact_vars, rows_vars,
                   period_type, cfg_allow_amendments, consumed, archives_seen,
                   req_tickers, req_include_amendments, cik_map, ticker_idx,
                   filing_idx, all_income, all_balance, all_cashflow, all_filings, log,
                   used_facts, setup_vars>>
    /\ UNCHANGED service_vars

\* lines 127-128: the company facts are fetched, or the fetch raises XBRLParseError
FetchFacts ==
    /\ pc = "fetch_facts"
    /\ \/ /\ \E entries \in SeqsUpTo(BuilderFactUniverse(cutoff_date), MaxCompanyFacts) :
                cik_facts' = FactsByTag(entries)
          /\ pc' = "filings" /\ filing_idx' = 1 /\ raised' = raised
       \/ /\ raised' = "XBRLParseError" /\ pc' = "except"
          /\ UNCHANGED <<cik_facts, filing_idx>>
    /\ UNCHANGED <<cutoff_date, allow_amendments, filings, selected, fact_vars,
                   index_vars, annual_mode, income_row, balance_row, cashflow_row,
                   req_tickers, req_include_amendments, cik_map, ticker_idx, all_income,
                   all_balance, all_cashflow, all_filings, log, used_facts, select_raised,
                   setup_vars>>
    /\ request_sent' = TRUE
    /\ UNCHANGED <<mapper_vars, client_vars, limiter_vars>>

\* lines 132-141: the row of the filings table
FilingRow(item, filing) ==
    [ticker |-> item.ticker, cik |-> item.cik, accession |-> filing.accession,
     form_type |-> filing.form_type, filing_date |-> filing.filing_date,
     acceptance_datetime |-> filing.acceptance_datetime,
     period_of_report |-> filing.period_of_report, source |-> "edgar"]

\* "if row: all.append(row)"
AppendIfSome(rows, row) == IF IsSome(row) THEN Append(rows, Get(row)) ELSE rows

\* the facts select_best_fact_for_period hands to the row builders of one filing
FactsUsed(facts, p_end, cutoff, annual) ==
    {Get(b) : b \in {FirstBestFact(TAG_PRIORITY_MAP[i].tags, facts,
                                   TAG_PRIORITY_MAP[i].context_type, p_end, cutoff,
                                   TAG_PRIORITY_MAP[i].context_type = "instant" \/ annual)
                        : i \in 1..Len(TAG_PRIORITY_MAP)} \ {None}}

\* lines 130-176: one pass of the loop over the selected filings
ProcessFilingOf(item, filing) ==
    /\ all_filings' = Append(all_filings, FilingRow(item, filing))
    /\ all_income' = AppendIfSome(all_income,
            build_income_rows(item, cik_facts, filing.accession, filing.period_of_report,
                              cutoff_date, DateOf(filing.acceptance_datetime), annual_mode))
    /\ all_balance' = AppendIfSome(all_balance,
            build_balance_rows(item, cik_facts, filing.accession, filing.period_of_report,
                               cutoff_date, DateOf(filing.acceptance_datetime)))
    /\ all_cashflow' = AppendIfSome(all_cashflow,
            build_cashflow_rows(item, cik_facts, filing.accession, filing.period_of_report,
                                cutoff_date, DateOf(filing.acceptance_datetime), annual_mode))
    /\ used_facts' = used_facts \cup
            FactsUsed(cik_facts, filing.period_of_report, cutoff_date, annual_mode)

ProcessFiling ==
    /\ pc = "filings"
    /\ filing_idx <= Len(selected)
    /\ ProcessFilingOf(cik_map[ticker_idx], selected[filing_idx])
    /\ filing_idx' = filing_idx + 1
    /\ UNCHANGED <<pc, cutoff_date, selector_vars, fact_vars, rows_vars, index_vars,
                   req_tickers, req_include_amendments, cik_map, ticker_idx, log,
                   select_raised, setup_vars>>
    /\ UNCHANGED service_vars

\* the loop over the selected filings is over: the next ticker
EndTicker ==
    /\ pc = "filings"
    /\ filing_idx > Len(selected)
    /\ AdvanceTicker
    /\ UNCHANGED <<cutoff_date, allow_amendments, filings, raised, fact_vars, annual_mode,
                   income_row, balance_row, cashflow_row, period_type,
                   cfg_allow_amendments, req_tickers, req_include_amendments, cik_map,
                   all_income, all_balance, all_cashflow, all_filings, log, used_facts,
                   select_raised, setup_vars>>
    /\ UNCHANGED service_vars

\* a handler around the loop instead of inside it: the first failure is logged
\* and no further ticker is processed
HandleExceptionEndsLoop ==
    /\ pc = "except"
    /\ log' = Append(log, [level |-> IF raised = "FilingNotFoundError"
                                     THEN "warning" ELSE "error",
                           ticker |-> cik_map[ticker_idx].ticker, error |-> raised])
    /\ raised' = ""
    /\ ticker_idx' = Len(cik_map) + 1 /\ pc' = "assemble"
    /\ records' = <<>> /\ consumed' = 0 /\ archives_seen' = 0
    /\ fallback_kept' = FALSE /\ archive_kept' = FALSE
    /\ selected' = <<>> /\ cik_facts' = <<>> /\ filing_idx' = 0
    /\ UNCHANGED <<cutoff_date, allow_amendments, filings, fact_vars, annual_mode,
                   income_row, balance_row, cashflow_row, period_type,
                   cfg_allow_amendments, req_tickers, req_include_amendments, cik_map,
                   all_income, all_balance, all_cashflow, all_filings, used_facts,
                   select_raised, setup_vars>>
    /\ UNCHANGED service_vars

\* lines 178-182: FilingNotFoundError is logged as a warning, any other
\* exception as an error; the loop goes on with the next ticker
HandleException ==
    /\ pc = "except"
    /\ log' = Append(log, [level |-> IF raised = "FilingNotFoundError"
                                     THEN "warning" ELSE "error",
                           ticker |-> cik_map[ticker_idx].ticker, error |-> raised])
    /\ raised' = ""
    /\ AdvanceTicker
    /\ UNCHANGED <<cutoff_date, allow_amendments, filings, fact_vars, annual_mode,
                   income_row, balance_row, cashflow_row, period_type,
                   cfg_allow_amendments, req_tickers, req_include_amendments, cik_map,
                   all_income, all_balance, all_cashflow, all_filings, used_facts,
                   select_raised, setup_vars>>
    /\ UNCHANGED service_vars

\* lines 184-215: the tables are assembled from the collected rows, then
\* build_coverage_report raises and the call ends with its exception instead
\* of returning the SnapshotResult
AssembleResult ==
    /\ pc = "assemble"
    /\ pc' = "done"
    /\ raised' = build_coverage_report(req_tickers, all_income, all_balance,
                                       all_cashflow).raised
    /\ UNCHANGED <<cutoff_date, allow_amendments, filings, selected, fact_vars, rows_vars,
                   index_vars, builder_vars>>
    /\ UNCHANGED service_vars

Next ==
    \/ AssertPitSafe
    \/ OpenClient
    \/ StartBuild
    \/ FetchSubmissions
    \/ ParsePrimaryEntry
    \/ EndPrimary
    \/ NextArchive
    \/ ParseArchiveEntry
    \/ EndArchive
    \/ ReturnFilings
    \/ SelectFilings
    \/ FetchFacts
    \/ ProcessFiling
    \/ EndTicker
    \/ HandleException
    \/ AssembleResult

Spec == InitBuild /\ [][Next]_vars

-----------------------------------------------------------------------------
(* Specification SpecGuard: build_edgar_snapshot with the filings index taken  *)
(* at its signature (get_filings returns a list of FilingRecord or raises      *)
(* FilingNotFoundError), which is what the safety assertion of the selector    *)
(* guards against: nothing is assumed about the acceptance of the records.     *)

GuardRecords(cutoff) ==
    {FilingRecord(CurrentCik, [digits |-> 22000100, fmt |-> "dashed"], f, cutoff, a,
                  cutoff - 1, CurrentTicker)
        : f \in {"10-K", "10-K/A"},
          a \in {Combine(cutoff, EndOfDayTime), Combine(cutoff + 1, 0)}}

\* lines 118-123: get_filings returns some list of records, or raises
GetFilingsReturns ==
    /\ pc = "get_filings"
    /\ \E recs \in SeqsUpTo(GuardRecords(cutoff_date), MaxFilings) :
          IF recs = <<>>
          THEN raised' = "FilingNotFoundError" /\ pc' = "except" /\ records' = records
          ELSE raised' = raised /\ pc' = "select" /\ records' = recs
    /\ UNCHANGED <<builder_vars, cutoff_date, allow_amendments, filings, selected,
                   fact_vars, rows_vars, period_type, cfg_allow_amendments, consumed,
                   archives_seen, fallback_kept, archive_kept>>
    /\ request_sent' = TRUE
    /\ UNCHANGED <<mapper_vars, client_vars, limiter_vars>>

NextGuard ==
    \/ AssertPitSafe
    \/ OpenClient
    \/ StartBuild
    \/ GetFilingsReturns
    \/ SelectFilings
    \/ FetchFacts
    \/ ProcessFiling
    \/ EndTicker
    \/ HandleException
    \/ AssembleResult

SpecGuard == InitBuild /\ [][NextGuard]_vars

-----------------------------------------------------------------------------
(* utils/hashing.py, utils/retry.py, edgar/client.py.  Specification           *)
(* SpecClient: a sequence of get_json and get_raw calls on one EdgarClient.    *)
(* A params dict is the sequence of its items in insertion order (optional:    *)
(* None is no dict); SHA-256 is taken as injective on the canonical strings.   *)

MaxCalls == 3

\* with_retry(max_attempts=5, ...) of _fetch
max_attempts == 5

\* the items of a params dict, whatever their order; none for None and for {}
ParamItems(params) == IF IsSome(params) THEN Range(Get(params)) ELSE {}

\* a cache key that keeps the insertion order of params (no sort_keys)
request_cache_key_unsorted(url, params) ==
    [url |-> url,
     params |-> IF ParamItems(params) /= {} THEN Some(Get(params)) ELSE None]

\* request_cache_key: the digest of {"url": url} plus, when params is truthy,
\* "params": params, serialized with sort_keys
request_cache_key(url, params) ==
    [url |-> url,
     params |-> IF ParamItems(params) /= {} THEN Some(ParamItems(params)) ELSE None]

\* Python None, as resp.json() gives it for the body "null" and cache.get for a miss
PyNone == [t |-> "none", v |-> ""]

\* resp.json() of get_json, resp.content of get_raw
Payload(kind, body) ==
    IF kind = "get_raw" THEN [t |-> "bytes", v |-> body]
    ELSE IF body = "null" THEN PyNone ELSE [t |-> "json", v |-> body]

\* ResponseCache.get: the stored value, None when the key is absent
CacheGet(store, key) == IF key \in DOMAIN store THEN store[key] ELSE PyNone

\* ResponseCache.set
CacheSet(store, key, value) ==
    [k \in DOMAIN store \cup {key} |-> IF k = key THEN value ELSE store[k]]

\* get_json line 89 ("cache_key in self._cache"), get_raw lines 120-121
\* ("cached is not None")
CacheHit(kind, store, key) ==
    IF kind = "get_json" THEN key \in DOMAIN store ELSE CacheGet(store, key) /= PyNone

RetryableStatuses == {429, 500, 502, 503, 504}

\* check_response: the exception it raises for a status, "" when none
check_response(status) ==
    IF status = 429 THEN "_RetryableHTTPError"
    ELSE IF status \in {500, 502, 503, 504} THEN "_RetryableHTTPError"
    ELSE IF status >= 400 THEN "HTTPError"
    ELSE ""

\* the exception one run of _fetch ends with, "" when it returns
fetch_exception(kind, outcome) ==
    IF outcome.error /= "" THEN outcome.error
    ELSE IF check_response(outcome.status) /= "" THEN check_response(outcome.status)
    ELSE IF kind = "get_json" /\ outcome.body = "<html>" THEN "JSONDecodeError"
    ELSE ""

\* a retry predicate that takes every failed response for transient
is_retryable_any_failure(exc, status) == exc /= ""

\* _is_retryable
is_retryable(exc, status) ==
    \/ exc = "_RetryableHTTPError" /\ status \in RetryableStatuses
    \/ exc \in {"ConnectionError", "Timeout"}

\* what a GET can come back with
ClientBodies == {"null", "{}", "<html>"}
ClientStatuses == RetryableStatuses \cup {404, 501}
ClientOutcomes ==
    {[error |-> e, status |-> 0, body |-> ""] : e \in {"ConnectionError", "Timeout"}}
    \cup {[error |-> "", status |-> s, body |-> ""] : s \in ClientStatuses}
    \cup {[error |-> "", status |-> 200, body |-> b] : b \in ClientBodies}

ClientUrl == "https://data.sec.gov/submissions/CIK0000320193.json"
ClientParams ==
    {None, Some(<<>>),
     Some(<<[k |-> "a", v |-> "1"], [k |-> "b", v |-> "2"]>>),
     Some(<<[k |-> "b", v |-> "2"], [k |-> "a", v |-> "1"]>>)}
ClientCalls ==
    {[kind |-> "get_json", url |-> ClientUrl, params |-> q] : q \in ClientParams}
    \cup {[kind |-> "get_raw", url |-> ClientUrl, params |-> None]}

\* what identifies a request: the method, the URL and the params as a dict
Request(c) == [kind |-> c.kind, url |-> c.url, items |-> ParamItems(c.params)]

CallKey(c) == request_cache_key(c.url, c.params)

InitClient ==
    /\ pc = "client_idle"
    /\ cache = <<>> /\ fetched = {} /\ call = None
    /\ attempt_number = 0 /\ tokens_acquired = 0 /\ gets_dispatched = 0
    /\ last_outcome = NoOutcome /\ only_429 = TRUE /\ returned = None
    /\ calls_made = 0
    /\ cutoff_date = 0
    /\ request_sent = FALSE
    /\ SelectorIdle
    /\ FactIdle
    /\ RowsIdle
    /\ IndexIdle
    /\ BuilderIdle
    /\ MapperIdle
    /\ LimiterIdle

other_than_client == <<cutoff_date, allow_amendments, filings, selected, fact_vars,
                       rows_vars, index_vars, builder_vars, request_sent, mapper_vars,
                       limiter_vars>>

\* get_json lines 87-91, get_raw lines 118-123: the key is computed and the
\* cache is looked up; a hit returns the cached payload, a miss starts _fetch
StartCall ==
    /\ pc \in {"client_idle", "client_done"}
    /\ calls_made < MaxCalls
    /\ calls_made' = calls_made + 1
    /\ tokens_acquired' = 0 /\ gets_dispatched' = 0
    /\ last_outcome' = NoOutcome /\ only_429' = TRUE
    /\ raised' = ""
    /\ \E c \in ClientCalls :
          /\ call' = Some(c)
          /\ IF CacheHit(c.kind, cache, CallKey(c))
             THEN /\ returned' = Some(CacheGet(cache, CallKey(c)))
                  /\ attempt_number' = 0 /\ pc' = "client_done"
             ELSE /\ returned' = None
                  /\ attempt_number' = 1 /\ pc' = "attempt"
    /\ UNCHANGED <<cache, fetched, other_than_client>>

\* lines 95 and 127: an attempt starts by acquiring one rate-limit token
AcquireToken ==
    /\ pc = "attempt"
    /\ tokens_acquired' = tokens_acquired + 1
    /\ pc' = "get"
    /\ UNCHANGED <<cache, fetched, call, attempt_number, gets_dispatched, last_outcome,
                   only_429, returned, calls_made, raised, other_than_client>>

\* what follows the GET of an attempt: the payload is cached and returned
\* (lines 100-103, 132-134), or tenacity starts another attempt, or the last
\* exception leaves the call (reraise=True)
AfterGet(c, outcome, exc) ==
    IF exc = ""
    THEN /\ cache' = CacheSet(cache, CallKey(c), Payload(c.kind, outcome.body))
         /\ fetched' = fetched \cup {Request(c)}
         /\ returned' = Some(Payload(c.kind, outcome.body))
         /\ raised' = "" /\ pc' = "client_done"
         /\ attempt_number' = attempt_number
    ELSE /\ UNCHANGED <<cache, fetched, returned>>
         /\ IF is_retryable(exc, outcome.status) /\ attempt_number < max_attempts
            THEN attempt_number' = attempt_number + 1 /\ raised' = "" /\ pc' = "attempt"
            ELSE attempt_number' = attempt_number /\ raised' = exc /\ pc' = "client_done"

\* lines 96-98 and 128-130: the GET is dispatched and its response checked
DispatchGet ==
    /\ pc = "get"
    /\ gets_dispatched' = gets_dispatched + 1
    /\ \E outcome \in ClientOutcomes :
          /\ last_outcome' = outcome
          /\ only_429' = (only_429 /\ outcome.status = 429)
          /\ AfterGet(Get(call), outcome, fetch_exception(Get(call).kind, outcome))
    /\ UNCHANGED <<call, tokens_acquired, calls_made, other_than_client>>

NextClient ==
    \/ StartCall
    \/ AcquireToken
    \/ DispatchGet

SpecClient == InitClient /\ [][NextClient]_vars

-----------------------------------------------------------------------------
(* Specification SpecArchives: the archive loop of get_filings (lines 87-120) *)
(* on a given filings.files list.  What a fetched archive holds is left out:  *)
(* SpecIndex parses it.                                                        *)

MaxArchiveFiles == 2

InitArchives ==
    /\ pc = "archives"
    /\ cutoff_date = MaxDay
    /\ archive_files \in SeqsUpTo(ArchiveDescriptors(cutoff_date), MaxArchiveFiles)
    /\ archive_outcomes = <<>>
    /\ SelectorIdle
    /\ FactIdle
    /\ RowsIdle
    /\ IndexIdle
    /\ BuilderFieldsIdle
    /\ ServiceIdle

\* lines 88-120: one turn of the loop, for the next descriptor of the list
ArchiveLoopTurn ==
    /\ pc = "archives"
    /\ archives_seen < Len(archive_files)
    /\ archives_seen' = archives_seen + 1
    /\ \E ok \in BOOLEAN :
          /\ archive_outcomes' = Append(archive_outcomes,
                 ArchiveOutcome(archive_files[archives_seen + 1], cutoff_date, ok))
          /\ request_sent' = (request_sent
                 \/ ArchiveIsFetched(archive_files[archives_seen + 1], cutoff_date))
    /\ UNCHANGED <<pc, cutoff_date, selector_vars, fact_vars, rows_vars, period_type,
                   cfg_allow_amendments, records, consumed, fallback_kept, archive_kept,
                   req_tickers, req_include_amendments, cik_map, ticker_idx, filing_idx,
                   all_income, all_balance, all_cashflow, all_filings, log, used_facts,
                   select_raised, company_rows, req_allow_estimates, cfg_allow_estimates,
                   client_created, post_vars, archive_files, mapper_vars, client_vars,
                   limiter_vars>>

NextArchives == ArchiveLoopTurn

SpecArchives == InitArchives /\ [][NextArchives]_vars

-----------------------------------------------------------------------------
(* utils/rate_limit.py.  Specification SpecLimiter: threads calling acquire(n) *)
(* on one TokenBucketRateLimiter, interleaved statement by statement.  Time is  *)
(* a count of ticks, rate is tokens per tick, and rate, burst and n are whole   *)
(* numbers, so every token count is one too.                                    *)

MaxThreads == 2
MaxClock == 2
MaxAsk == 2

Threads == 1..MaxThreads

\* the configurations of the limiter: tokens per tick and bucket size (the
\* second has burst = rate, as SECRateLimiter constructs it)
LimiterConfigs == {[rate |-> 1, burst |-> 2], [rate |-> 2, burst |-> 2]}

Min(a, b) == IF a <= b THEN a ELSE b

\* _refill: the token count after the refill at time t
refill(count, last, t, r, b) == Min(b, count + (t - last) * r)

\* line 65: sleep_for = (n - self._tokens) / self._rate, in whole ticks
sleep_for(n, count, r) == (n - count + r - 1) \div r

\* a lock that excludes nobody
LockIgnored(holder) == TRUE

\* line 59: "with self._lock" is entered when no thread holds the lock
LockFree(holder) == holder = 0

InitLimiter ==
    /\ pc = "limiter"
    /\ \E config \in LimiterConfigs : rate = config.rate /\ burst = config.burst
    /\ tokens = burst
    /\ last_refill = 0 /\ now = 0
    /\ lock = 0
    /\ thread_pc = [t \in Threads |-> "idle"]
    /\ thread_n = [t \in Threads |-> 0]
    /\ thread_wake = [t \in Threads |-> 0]
    /\ granted = 0
    /\ cutoff_date = 0
    /\ request_sent = FALSE
    /\ SelectorIdle
    /\ FactIdle
    /\ RowsIdle
    /\ IndexIdle
    /\ BuilderIdle
    /\ MapperIdle
    /\ ClientIdle

other_than_limiter == <<pc, cutoff_date, selector_vars, fact_vars, rows_vars, index_vars,
                        builder_vars, request_sent, mapper_vars, client_vars>>

\* a thread calls acquire(n)
CallAcquire(t) ==
    /\ thread_pc[t] \in {"idle", "returned"}
    /\ \E n \in 1..MaxAsk : thread_n' = [thread_n EXCEPT ![t] = n]
    /\ thread_pc' = [thread_pc EXCEPT ![t] = "waiting"]
    /\ UNCHANGED <<rate, burst, tokens, last_refill, now, lock, thread_wake, granted,
                   other_than_limiter>>

\* line 59: the thread enters the with block
TakeLock(t) ==
    /\ thread_pc[t] = "waiting"
    /\ LockFree(lock)
    /\ lock' = t
    /\ thread_pc' = [thread_pc EXCEPT ![t] = "refill"]
    /\ UNCHANGED <<rate, burst, tokens, last_refill, now, thread_n, thread_wake, granted,
                   other_than_limiter>>

\* line 60: self._refill()
Refill(t) ==
    /\ thread_pc[t] = "refill"
    /\ tokens' = refill(tokens, last_refill, now, rate, burst)
    /\ last_refill' = now
    /\ thread_pc' = [thread_pc EXCEPT ![t] = "check"]
    /\ UNCHANGED <<rate, burst, now, lock, thread_n, thread_wake, granted,
                   other_than_limiter>>

\* line 61: "if self._tokens >= n"
CheckTokens(t) ==
    /\ thread_pc[t] = "check"
    /\ thread_pc' = [thread_pc EXCEPT
                        ![t] = IF tokens >= thread_n[t] THEN "deduct" ELSE "no_tokens"]
    /\ UNCHANGED <<rate, burst, tokens, last_refill, now, lock, thread_n, thread_wake,
                   granted, other_than_limiter>>

\* lines 62-63: the tokens are deducted and acquire returns, leaving the with block
Deduct(t) ==
    /\ thread_pc[t] = "deduct"
    /\ tokens' = tokens - thread_n[t]
    /\ granted' = granted + thread_n[t]
    /\ lock' = 0
    /\ thread_pc' = [thread_pc EXCEPT ![t] = "returned"]
    /\ thread_n' = [thread_n EXCEPT ![t] = 0]
    /\ UNCHANGED <<rate, burst, last_refill, now, thread_wake, other_than_limiter>>

\* lines 65-67: the sleep time is computed, the with block is left and the
\* thread sleeps
StartSleep(t) ==
    /\ thread_pc[t] = "no_tokens"
    /\ thread_wake' = [thread_wake EXCEPT
                          ![t] = now + sleep_for(thread_n[t], tokens, rate)]
    /\ lock' = 0
    /\ thread_pc' = [thread_pc EXCEPT ![t] = "sleeping"]
    /\ UNCHANGED <<rate, burst, tokens, last_refill, now, thread_n, granted,
                   other_than_limiter>>

\* lines 67-68, 58: time.sleep is over, the loop starts again
Wake(t) ==
    /\ thread_pc[t] = "sleeping"
    /\ now >= thread_wake[t]
    /\ thread_pc' = [thread_pc EXCEPT ![t] = "waiting"]
    /\ thread_wake' = [thread_wake EXCEPT ![t] = 0]
    /\ UNCHANGED <<rate, burst, tokens, last_refill, now, lock, thread_n, granted,
                   other_than_limiter>>

\* time.monotonic() moves on
Tick ==
    /\ now < MaxClock
    /\ now' = now + 1
    /\ UNCHANGED <<rate, burst, tokens, last_refill, lock, thread_pc, thread_n,
                   thread_wake, granted, other_than_limiter>>

NextLimiter ==
    \/ \E t \in Threads : CallAcquire(t)
    \/ \E t \in Threads : TakeLock(t)
    \/ \E t \in Threads : Refill(t)
    \/ \E t \in Threads : CheckTokens(t)
    \/ \E t \in Threads : Deduct(t)
    \/ \E t \in Threads : StartSleep(t)
    \/ \E t \in Threads : Wake(t)
    \/ Tick

SpecLimiter == InitLimiter /\ [][NextLimiter]_vars

-----------------------------------------------------------------------------
(* Specification SpecAcquire: one caller of acquire(1) on a SECRateLimiter,    *)
(* with time that never stops.  Token counts are in units of 1/TokenUnit of a  *)
(* token, so that rates below one request per second are there; a tick is one  *)
(* second.  The code reads the clock only to take differences, so the clock    *)
(* readings are kept relative to the last refill.                              *)

TokenUnit == 2
SEC_MAX_RPS == 10

\* SECRateLimiter.__init__ (line 85) and TokenBucketRateLimiter.__init__
\* (line 34): the rates, in token units per second, that construction accepts
SECAccepts(rps) == ~(rps > SEC_MAX_RPS * TokenUnit) /\ ~(rps <= 0)

SECRates == {rps \in 0..(SEC_MAX_RPS * TokenUnit + 1) : SECAccepts(rps)}

Max(a, b) == IF a >= b THEN a ELSE b

\* the longest time between two refills the clock tells apart: the bucket of a
\* SECRateLimiter (burst = rate) is full after one second
MaxElapsed == 2

\* the calling thread: the first one
Caller == CHOOSE t \in Threads : \A u \in Threads : t <= u

\* line 90: super().__init__(rate=rps, burst=rps)
InitAcquire ==
    /\ pc = "limiter"
    /\ \E rps \in SECRates : rate = rps /\ burst = rps
    /\ tokens = burst
    /\ last_refill = 0 /\ now = 0
    /\ lock = 0
    /\ thread_pc = [t \in Threads |-> "idle"]
    /\ thread_n = [t \in Threads |-> 0]
    /\ thread_wake = [t \in Threads |-> 0]
    /\ granted = 0
    /\ cutoff_date = 0
    /\ request_sent = FALSE
    /\ SelectorIdle
    /\ FactIdle
    /\ RowsIdle
    /\ IndexIdle
    /\ BuilderIdle
    /\ MapperIdle
    /\ ClientIdle

\* the caller calls acquire(1): one token is TokenUnit units
CallAcquireOne ==
    /\ thread_pc[Caller] = "idle"
    /\ thread_n' = [thread_n EXCEPT ![Caller] = TokenUnit]
    /\ thread_pc' = [thread_pc EXCEPT ![Caller] = "waiting"]
    /\ UNCHANGED <<rate, burst, tokens, last_refill, now, lock, thread_wake, granted,
                   other_than_limiter>>

\* the statements of acquire, as the caller runs them
CallerStep ==
    \/ TakeLock(Caller)
    \/ Refill(Caller)
    \/ CheckTokens(Caller)
    \/ Deduct(Caller)
    \/ StartSleep(Caller)
    \/ Wake(Caller)

\* time.monotonic() moves on by a second, for ever; the readings are shifted
\* so that the last refill is at 0, and a time since the last refill of
\* MaxElapsed or more is kept as MaxElapsed, the sleepers' wake-up times
\* coming one second nearer instead
TickOn ==
    /\ now' = Min(MaxElapsed, now - last_refill + 1)
    /\ last_refill' = 0
    /\ thread_wake' = [t \in Threads |->
            Max(0, thread_wake[t] - last_refill
                     - (IF now - last_refill + 1 > MaxElapsed THEN 1 ELSE 0))]
    /\ UNCHANGED <<rate, burst, tokens, lock, thread_pc, thread_n, granted,
                   other_than_limiter>>

NextAcquire ==
    \/ CallAcquireOne
    \/ CallerStep
    \/ TickOn

\* time advances and the caller is scheduled: whichever statement of acquire
\* it is at is run in the end
SpecAcquire ==
    /\ InitAcquire /\ [][NextAcquire]_vars
    /\ WF_vars(CallerStep) /\ WF_vars(TickOn)

-----------------------------------------------------------------------------
(* edgar/cik_map.py.  Specification SpecMapper: a sequence of load, resolve,  *)
(* resolve_many and company_name calls on one CIKMapper, for any registry      *)
(* document.  A document is the sequence of its entries.                       *)

MaxMapperCalls == 3

\* cik_raw.zfill(10)
zfill10(cik_raw) ==
    IF cik_raw = "320193" THEN "0000320193"
    ELSE IF cik_raw = "789019" THEN "0000789019"
    ELSE cik_raw

\* line 58: the entries with a ticker and a CIK
ValidEntries(raw) ==
    {i \in 1..Len(raw) : Upper(raw[i].ticker) /= "" /\ raw[i].cik_str /= ""}

\* the last valid entry of a ticker: a later assignment replaces an earlier one
LastEntry(raw, ticker) ==
    CHOOSE i \in ValidEntries(raw) :
        /\ Upper(raw[i].ticker) = ticker
        /\ \A j \in ValidEntries(raw) : Upper(raw[j].ticker) = ticker => j <= i

\* lines 53-61: _map and _name_map as load fills them from the document
load_map(raw) ==
    [t \in {Upper(raw[i].ticker) : i \in ValidEntries(raw)} |->
        zfill10(raw[LastEntry(raw, t)].cik_str)]

load_names(raw) ==
    [t \in {Upper(raw[i].ticker) : i \in ValidEntries(raw)} |->
        raw[LastEntry(raw, t)].title]

\* lines 47-48: load goes to the registry URL unless _map is populated
MustFetch(map, fetches) == map = <<>>

\* self._map.get(ticker.strip().upper())
MapLookup(map, ticker) ==
    IF Upper(ticker) \in DOMAIN map THEN Some(map[Upper(ticker)]) ELSE None

\* resolve_many: the dict ticker -> cik of the tickers that resolve, as its items
ResolveManyIn(map, tickers) ==
    LET keys == DistinctInOrder(SelectSeq(tickers, LAMBDA t : IsSome(MapLookup(map, t))))
    IN [i \in 1..Len(keys) |-> [ticker |-> keys[i], cik |-> Get(MapLookup(map, keys[i]))]]

RegistryEntry(ticker, cik_str, title) ==
    [ticker |-> ticker, cik_str |-> cik_str, title |-> title]

\* registry documents: empty, well-formed, and with entries load passes over
RegistryDocs ==
    {<<>>,
     <<RegistryEntry("AAPL", "320193", "Apple Inc.")>>,
     <<RegistryEntry("aapl", "320193", "Apple Inc."),
       RegistryEntry("MSFT", "789019", "Microsoft Corp")>>,
     <<RegistryEntry("", "320193", "Apple Inc.")>>,
     <<RegistryEntry("AAPL", "", "Apple Inc.")>>}

InitMapper ==
    /\ pc = "mapper"
    /\ registry_raw \in RegistryDocs
    /\ mapper_map = <<>> /\ name_map = <<>>
    /\ registry_fetches = 0 /\ mapper_calls = 0 /\ mapper_result = None
    /\ cutoff_date = 0
    /\ request_sent = FALSE
    /\ SelectorIdle
    /\ FactIdle
    /\ RowsIdle
    /\ IndexIdle
    /\ BuilderIdle
    /\ ClientIdle
    /\ LimiterIdle

other_than_mapper == <<pc, cutoff_date, allow_amendments, filings, selected, fact_vars,
                       rows_vars, index_vars, builder_vars, client_vars, limiter_vars>>

\* a call on the mapper that runs load() `loads` times (once itself, and once
\* for every resolve it makes): each load fetches the registry unless _map is
\* populated; ok is whether the client's get_json returns the document or raises
MapperCall(loads, ok) ==
    /\ mapper_calls < MaxMapperCalls
    /\ mapper_calls' = mapper_calls + 1
    /\ IF ~MustFetch(mapper_map, registry_fetches)
       THEN UNCHANGED <<mapper_map, name_map, registry_fetches, request_sent>>
       ELSE /\ request_sent' = TRUE
            /\ IF ~ok
               THEN UNCHANGED <<mapper_map, name_map, registry_fetches>>
               ELSE /\ mapper_map' = load_map(registry_raw)
                    /\ name_map' = load_names(registry_raw)
                    /\ registry_fetches' = registry_fetches +
                          (IF load_map(registry_raw) = <<>> THEN loads ELSE 1)
    /\ UNCHANGED <<registry_raw, other_than_mapper>>

\* the exception of a call whose first load could not fetch the registry
LoadRaises(ok) == MustFetch(mapper_map, registry_fetches) /\ ~ok

\* load()
Load ==
    \E ok \in BOOLEAN :
        /\ MapperCall(1, ok)
        /\ raised' = IF LoadRaises(ok) THEN "HTTPError" ELSE ""
        /\ mapper_result' = None

\* resolve(ticker)
Resolve ==
    \E ok \in BOOLEAN, ticker \in RequestTickers :
        /\ MapperCall(1, ok)
        /\ raised' = IF LoadRaises(ok) THEN "HTTPError"
                     ELSE IF MapLookup(mapper_map', ticker) = None THEN "CIKLookupError"
                     ELSE ""
        /\ mapper_result' = IF LoadRaises(ok) THEN None
                            ELSE MapLookup(mapper_map', ticker)

\* resolve_many(tickers)
ResolveMany ==
    \E ok \in BOOLEAN, tickers \in SeqsUpTo(RequestTickers, MaxTickers) :
        /\ MapperCall(1 + Len(tickers), ok)
        /\ raised' = IF LoadRaises(ok) THEN "HTTPError" ELSE ""
        /\ mapper_result' = IF LoadRaises(ok) THEN None
                            ELSE Some(ResolveManyIn(mapper_map', tickers))

\* company_name(ticker)
CompanyName ==
    \E ok \in BOOLEAN, ticker \in RequestTickers :
        /\ MapperCall(1, ok)
        /\ raised' = IF LoadRaises(ok) THEN "HTTPError" ELSE ""
        /\ mapper_result' = IF LoadRaises(ok) THEN None
                            ELSE MapLookup(name_map', ticker)

NextMapper ==
    \/ Load
    \/ Resolve
    \/ ResolveMany
    \/ CompanyName

SpecMapper == InitMapper /\ [][NextMapper]_vars

-----------------------------------------------------------------------------
(* data/validation.py, snapshot/builder.py (_compute_derived) and             *)
(* data/outputs.py.  Specification SpecPost: the steps that follow the        *)
(* assembly of the tables.  A DataFrame is a record of its column names and   *)
(* its rows; a row holds an optional value for each column the steps read,    *)
(* None being NaN/None.  Amounts are whole numbers (millions).                *)

MaxTableRows == 2

\* BALANCE_SHEET_TOLERANCE = 0.01, as a percentage
BALANCE_SHEET_TOLERANCE_PCT == 1

BalanceColumns ==
    {"cik", "period_end", "total_assets", "total_liabilities", "total_equity",
     "long_term_debt", "short_term_debt", "cash_and_equivalents"}

BalanceRow(p_end, assets, liab, equity, ltd, stb, cash) ==
    [cik |-> Some("0000320193"), period_end |-> Some(p_end),
     total_assets |-> assets, total_liabilities |-> liab, total_equity |-> equity,
     long_term_debt |-> ltd, short_term_debt |-> stb, cash_and_equivalents |-> cash]

\* rows that vary the three totals, rows that vary the debt components, and
\* rows of a second period at 1% and at 2% relative error
BalanceRowUniverse ==
    {BalanceRow(1, a, l, e, Some(30), Some(5), Some(50)) :
        a \in {None, Some(0), Some(100)}, l \in {None, Some(80)},
        e \in {None, Some(10), Some(20)}}
    \cup {BalanceRow(1, Some(100), Some(80), Some(20), d, s, c) :
        d \in {None, Some(30)}, s \in {None, Some(5)}, c \in {None, Some(50)}}
    \cup {BalanceRow(2, Some(100), Some(80), Some(19), None, None, Some(50)),
          BalanceRow(2, Some(0 - 100), Some(0 - 80), Some(0 - 18), Some(30), None, None)}

\* the column sets of the tables: the schema's, and two with a column absent
ColumnVariants ==
    {BalanceColumns, BalanceColumns \ {"total_equity"},
     BalanceColumns \ {"cash_and_equivalents"}}

\* a row of a table that lacks the columns `absent`
Blank(row, absent) == [f \in DOMAIN row |-> IF f \in absent THEN None ELSE row[f]]

DataFrame(columns, rows) ==
    [columns |-> columns,
     rows |-> [i \in DOMAIN rows |-> Blank(rows[i], BalanceColumns \ columns)]]

BalanceTables ==
    {DataFrame(cs, rs) : cs \in ColumnVariants,
                         rs \in SeqsUpTo(BalanceRowUniverse, MaxTableRows)}

\* Series.fillna(0)
FillZero(o) == IF o = None THEN 0 ELSE Get(o)

\* lines 126-134: the relative error is NaN where assets is zero (a missing
\* total_assets was filled with zero), and NaN <= tolerance is False
RelativeErrorOk(assets, liab_plus_equity) ==
    /\ Abs(assets) > 0
    /\ 100 * Abs(assets - liab_plus_equity) <= BALANCE_SHEET_TOLERANCE_PCT * Abs(assets)

\* lines 110-135: identity_ok of one row
IdentityOk(columns, row) ==
    IF ~({"total_assets", "total_liabilities", "total_equity"} \subseteq columns)
    THEN None
    ELSE Some(RelativeErrorOk(FillZero(row.total_assets),
                              FillZero(row.total_liabilities) + FillZero(row.total_equity)))

check_balance_sheet_identity(df) ==
    [columns |-> df.columns \cup {"identity_ok"},
     rows |-> [i \in DOMAIN df.rows |->
                  df.rows[i] @@ [identity_ok |-> IdentityOk(df.columns, df.rows[i])]]]

IncomeRow(p_end) == [cik |-> Some("0000320193"), period_end |-> Some(p_end)]

IncomeTables ==
    {<<>>, <<IncomeRow(1)>>, <<IncomeRow(2), IncomeRow(1)>>, <<IncomeRow(3)>>}

\* the rows of the right table with the key of a left row, in their order
MergeMatches(left_row, right_rows) ==
    SelectSeq(right_rows, LAMBDA b : b.cik = left_row.cik /\ b.period_end = left_row.period_end)

\* DataFrame.merge(on=["cik", "period_end"], how="left"): every left row, in
\* order, once per matching right row, and once with NaN when there is none
RECURSIVE MergeLeft(_, _)
MergeLeft(left_rows, right_rows) ==
    IF left_rows = <<>> THEN <<>>
    ELSE (IF MergeMatches(Head(left_rows), right_rows) = <<>>
          THEN <<[left |-> Head(left_rows), right |-> None]>>
          ELSE [j \in DOMAIN MergeMatches(Head(left_rows), right_rows) |->
                   [left |-> Head(left_rows),
                    right |-> Some(MergeMatches(Head(left_rows), right_rows)[j])]])
         \o MergeLeft(Tail(left_rows), right_rows)

\* _col(name) of the merged frame, for one of its rows: whether the column
\* exists, and the value (NaN where the merge found no balance row)
MergedHas(balance, name) == balance.rows /= <<>> /\ name \in balance.columns

MergedValue(pair, name) == IF pair.right = None THEN None ELSE Get(pair.right)[name]

\* lines 288-293
NetDebt(balance, pair) ==
    IF /\ MergedHas(balance, "long_term_debt")
       /\ MergedHas(balance, "short_term_debt")
       /\ MergedHas(balance, "cash_and_equivalents")
    THEN Some(FillZero(MergedValue(pair, "long_term_debt"))
              + FillZero(MergedValue(pair, "short_term_debt"))
              - FillZero(MergedValue(pair, "cash_and_equivalents")))
    ELSE IF MergedHas(balance, "long_term_debt")
    THEN Some(FillZero(MergedValue(pair, "long_term_debt")))
    ELSE None

\* one row of derived_metrics; `merged` is the balance row the merge attached
\* to the income row (None when it attached none)
DerivedRow(balance, pair) ==
    [cik |-> pair.left.cik, period_end |-> pair.left.period_end,
     net_debt |-> NetDebt(balance, pair), merged |-> pair.right]

compute_derived(income, balance) ==
    IF income = <<>> THEN <<>>
    ELSE [i \in DOMAIN MergeLeft(income, balance.rows) |->
             DerivedRow(balance, MergeLeft(income, balance.rows)[i])]

InitPost ==
    /\ pc = "post"
    /\ cutoff_date = 0
    /\ SelectorIdle
    /\ FactIdle
    /\ RowsIdle
    /\ IndexIdle
    /\ BuilderIdle
    /\ ServiceIdle

other_than_post == <<cutoff_date, allow_amendments, filings, selected, fact_vars, rows_vars,
                     index_vars, req_tickers, req_include_amendments, cik_map, ticker_idx,
                     filing_idx, all_income, all_balance, all_cashflow, all_filings, log,
                     used_facts, select_raised, company_rows, req_allow_estimates,
                     cfg_allow_estimates, client_created, archive_vars, service_vars>>

\* builder.py line 191: balance_df = check_balance_sheet_identity(balance_df)
CheckIdentity ==
    /\ pc = "post"
    /\ \E df \in BalanceTables :
          /\ balance_df' = df
          /\ checked_df' = check_balance_sheet_identity(df)
    /\ pc' = "checked"
    /\ UNCHANGED <<raised, income_df, derived_df, result_tables, validate, written,
                   write_log, other_than_post>>

\* builder.py line 195: derived_df = _compute_derived(income_df, balance_df, ...)
ComputeDerived ==
    /\ pc = "checked"
    /\ \E income \in IncomeTables :
          /\ income_df' = income
          /\ derived_df' = compute_derived(income, checked_df)
    /\ pc' = "derived"
    /\ UNCHANGED <<raised, balance_df, checked_df, result_tables, validate, written,
                   write_log, other_than_post>>

\* data/schema.py: the schemas of two of the tables.  ColumnSpec has
\* required = True and nullable = True by default, and no schema passes
\* required=False or nullable=False
ALL_SCHEMAS ==
    [company_master |->
        [key_columns |-> {"cik"},
         required_columns |-> {"ticker", "cik", "company_name", "sic", "exchange"},
         non_nullable |-> {}],
     filings |->
        [key_columns |-> {"cik", "accession"},
         required_columns |-> {"ticker", "cik", "accession", "form_type", "filing_date",
                               "acceptance_datetime", "period_of_report", "source"},
         non_nullable |-> {}]]

\* result.tables.items(), in the order the build inserts the tables
TableOrder == <<"company_master", "filings">>

\* df.duplicated(subset=key_cols).any()
HasDuplicateKeys(rows, key_cols) ==
    \E i, j \in DOMAIN rows : i < j /\ \A c \in key_cols : rows[i][c] = rows[j][c]

\* validate_table: the violations of a table (their order is left out)
validate_table(df, table_name) ==
    {[kind |-> "missing_column", column |-> c] :
        c \in ALL_SCHEMAS[table_name].required_columns \ df.columns}
    \cup {[kind |-> "null_in_non_nullable", column |-> c] :
        c \in {n \in ALL_SCHEMAS[table_name].non_nullable \cap df.columns :
                  \E i \in DOMAIN df.rows : df.rows[i][n] = None}}
    \cup (IF /\ ALL_SCHEMAS[table_name].key_columns \cap df.columns /= {}
             /\ HasDuplicateKeys(df.rows, ALL_SCHEMAS[table_name].key_columns \cap df.columns)
          THEN {[kind |-> "key_not_unique", column |-> ""]}
          ELSE {})

\* assert_valid_table: the exception it raises, "" when it returns
assert_valid_table(df, table_name) ==
    IF validate_table(df, table_name) /= {} THEN "SchemaValidationError" ELSE ""

\* line 55: df is None or df.empty
IsSkipped(df) == df = PyNone \/ df.rows = <<>>

\* lines 54-67: the tables written; the except clause of lines 62-63 catches
\* the validation error, so no table is held back
WrittenTables(tables) ==
    SelectSeq(TableOrder, LAMBDA n : ~IsSkipped(tables[n]))

\* the warning of one table: line 56 (skipped) or line 63 (validation), if any
TableWarning(df, table_name, do_validate) ==
    IF IsSkipped(df) THEN <<[kind |-> "empty", table |-> table_name]>>
    ELSE IF do_validate /\ assert_valid_table(df, table_name) /= ""
    THEN <<[kind |-> "validation", table |-> table_name]>>
    ELSE <<>>

RECURSIVE WriteWarnings(_, _, _)
WriteWarnings(names, tables, do_validate) ==
    IF names = <<>> THEN <<>>
    ELSE TableWarning(tables[Head(names)], Head(names), do_validate)
         \o WriteWarnings(Tail(names), tables, do_validate)

WriteRow(ticker, cik, accession) ==
    [ticker |-> ticker, cik |-> cik, accession |-> accession, company_name |-> Some("Apple Inc."),
     sic |-> None, exchange |-> None, form_type |-> Some("10-K"), filing_date |-> Some(1),
     acceptance_datetime |-> Some(1), period_of_report |-> Some(1), source |-> Some("edgar")]

AaplRow(accession) == WriteRow(Some("AAPL"), Some("0000320193"), Some(accession))

\* a table with the given columns: its rows hold these columns only
TableOf(columns, rows) ==
    [columns |-> columns,
     rows |-> [i \in DOMAIN rows |-> [c \in columns |-> rows[i][c]]]]

\* company_master tables: absent, empty, valid, the same CIK twice, a required
\* column absent, a null CIK
MasterTables ==
    {PyNone,
     TableOf(ALL_SCHEMAS.company_master.required_columns, <<>>),
     TableOf(ALL_SCHEMAS.company_master.required_columns, <<AaplRow("a1")>>),
     TableOf(ALL_SCHEMAS.company_master.required_columns,
             <<AaplRow("a1"), WriteRow(Some("aapl"), Some("0000320193"), Some("a1"))>>),
     TableOf(ALL_SCHEMAS.company_master.required_columns \ {"company_name"},
             <<AaplRow("a1")>>),
     TableOf(ALL_SCHEMAS.company_master.required_columns,
             <<WriteRow(Some("AAPL"), None, Some("a1"))>>)}

\* filings tables: empty, valid, the same (cik, accession) twice, the key
\* columns absent
FilingsTables ==
    {TableOf(ALL_SCHEMAS.filings.required_columns, <<>>),
     TableOf(ALL_SCHEMAS.filings.required_columns, <<AaplRow("a1"), AaplRow("a2")>>),
     TableOf(ALL_SCHEMAS.filings.required_columns, <<AaplRow("a1"), AaplRow("a1")>>),
     TableOf(ALL_SCHEMAS.filings.required_columns \ {"cik", "accession"},
             <<AaplRow("a1")>>)}

\* write_snapshot(result, output_dir, fmt, validate): the loop over the tables,
\* then _write_coverage_report, which reads overall_coverage_pct,
\* statement_coverage and ticker_coverage, attributes CoverageReport lacks
WriteSnapshot ==
    /\ pc = "post"
    /\ \E company_master \in MasterTables, filings_table \in FilingsTables, flag \in BOOLEAN :
          /\ result_tables' = [company_master |-> company_master, filings |-> filings_table]
          /\ validate' = flag
          /\ written' = WrittenTables(result_tables')
          /\ write_log' = WriteWarnings(TableOrder, result_tables', flag)
    /\ raised' = "AttributeError"
    /\ pc' = "written"
    /\ UNCHANGED <<balance_df, checked_df, income_df, derived_df, other_than_post>>

NextPost ==
    \/ CheckIdentity
    \/ ComputeDerived
    \/ WriteSnapshot

SpecPost == InitPost /\ [][NextPost]_vars

-----------------------------------------------------------------------------
(* Claims about FilingSelector.select (SpecSelect) *)

\* the records of the input whose period_of_report is p
GroupOf(p) == {r \in Range(filings) : r.period_of_report = p}

\* C3: select raises CutoffViolationError and returns no selection whenever any
\* record of its input was accepted later than 23:59:59 of the cutoff date,
\* whatever the other records are.
C3_SelectorRaisesOnBreach ==
    (pc = "done" /\ \E r \in Range(filings) :
                        r.acceptance_datetime > cutoff_date * TicksPerDay + EndOfDayTime)
        => (raised = "CutoffViolationError" /\ selected = <<>>)

\* a record accepted in the first instant after the cutoff day, next to a record
\* within the cutoff, made the call raise
C3_Witness ==
    /\ pc = "done"
    /\ raised = "CutoffViolationError"
    /\ \E r \in Range(filings) :
            r.acceptance_datetime = (cutoff_date + 1) * TicksPerDay
    /\ \E r \in Range(filings) :
            r.acceptance_datetime <= cutoff_date * TicksPerDay + EndOfDayTime

\* C6: in each period group, if amendments are allowed and the group holds a
\* form ending in /A, the chosen record is an amendment with the latest
\* acceptance among the amendments; otherwise it has the latest acceptance
\* among all the records of the group.
C6_PickBestPrefersAmendment ==
    (pc = "done" /\ raised = "") =>
        \A p \in {r.period_of_report : r \in Range(filings)} :
            \E i \in 1..Len(selected) :
                LET s == selected[i]
                    amendments == {r \in GroupOf(p) :
                                      EndsWithAmendmentSuffix(r.form_type)}
                IN /\ s \in GroupOf(p)
                   /\ IF allow_amendments /\ amendments /= {}
                      THEN /\ s \in amendments
                           /\ \A r \in amendments :
                                r.acceptance_datetime <= s.acceptance_datetime
                      ELSE \A r \in GroupOf(p) :
                                r.acceptance_datetime <= s.acceptance_datetime

\* an amendment was chosen although an original of the same period was
\* accepted later
C6_Witness ==
    /\ pc = "done" /\ raised = "" /\ allow_amendments
    /\ \E i \in 1..Len(selected) :
        /\ EndsWithAmendmentSuffix(selected[i].form_type)
        /\ \E r \in GroupOf(selected[i].period_of_report) :
            /\ ~EndsWithAmendmentSuffix(r.form_type)
            /\ r.acceptance_datetime > selected[i].acceptance_datetime

\* C7: select returns exactly one record for each distinct period_of_report of
\* its input, each an input record, in strictly descending period order.
C7_OnePerPeriodDescending ==
    (pc = "done" /\ raised = "") =>
        /\ {selected[i].period_of_report : i \in 1..Len(selected)}
                = {r.period_of_report : r \in Range(filings)}
        /\ Len(selected) = Cardinality({r.period_of_report : r \in Range(filings)})
        /\ \A i \in 1..Len(selected) : selected[i] \in Range(filings)
        /\ \A i \in 1..(Len(selected) - 1) :
                selected[i].period_of_report > selected[i + 1].period_of_report

\* two periods given in ascending order came back in descending order
C7_Witness ==
    /\ pc = "done" /\ raised = ""
    /\ Len(filings) >= 2 /\ Len(selected) >= 2
    /\ filings[1].period_of_report < filings[2].period_of_report
    /\ selected[1].period_of_report > selected[2].period_of_report

-----------------------------------------------------------------------------
(* Claims about select_best_fact_for_period (SpecFact) *)

\* C8: the fact returned was never filed after the cutoff date, by the exact or
\* by the fuzzy stage, and nothing is returned when every candidate was filed
\* after the cutoff.
C8_BestFactFiledWithinCutoff ==
    pc = "done" =>
        /\ IsSome(best) => Get(best).filed <= cutoff_date
        /\ (\A f \in Range(fact_list) : f.filed > cutoff_date) => best = None

\* the fuzzy stage answered although an exact candidate, filed after the
\* cutoff, was in the list
C8_Witness ==
    /\ pc = "done" /\ IsSome(best)
    /\ Get(best).end /= period_end
    /\ \E f \in Range(fact_list) : f.end = period_end /\ f.filed > cutoff_date

\* the candidate list with its frames replaced by g
Reframed(g) == [i \in 1..Len(fact_list) |-> [fact_list[i] EXCEPT !.frame = g[i]]]

\* C9: a fact is returned if and only if some candidate filed on or before the
\* cutoff ends within 7 days of the period end; changing only the frames
\* changes neither whether a fact is returned nor its day distance.
C9_FrameIsPreferenceNotGate ==
    pc = "done" =>
        /\ IsSome(best) <=>
                \E f \in Range(fact_list) :
                    /\ f.filed <= cutoff_date
                    /\ f.end - period_end <= 7 /\ period_end - f.end <= 7
        /\ \A g \in [1..Len(fact_list) -> FrameValues] :
                LET other == select_best_fact_for_period(Reframed(g), period_end,
                                                         cutoff_date)
                IN /\ IsSome(other) <=> IsSome(best)
                   /\ IsSome(best) =>
                        Abs(Get(other).end - period_end)
                            = Abs(Get(best).end - period_end)

\* an exact match without a frame was returned although a framed candidate
\* within the tolerance was eligible
C9_Witness ==
    /\ pc = "done" /\ IsSome(best)
    /\ Get(best).frame = None /\ Get(best).end = period_end
    /\ \E f \in Range(fact_list) :
            /\ f.frame /= None /\ f.filed <= cutoff_date
            /\ f.end /= period_end /\ Abs(f.end - period_end) <= 7

-----------------------------------------------------------------------------
(* Claims about the row builders (SpecRows) *)

SignFlipFields == {"capex", "dividends_paid", "share_repurchases"}

\* C10: in every cashflow row built, capex, dividends_paid and share_repurchases
\* are >= 0 whenever present, whatever the sign of the reported value.
C10_CashflowSignDiscipline ==
    (pc = "done" /\ IsSome(cashflow_row)) =>
        \A f \in SignFlipFields :
            (f \in DOMAIN Get(cashflow_row).vals /\ IsSome(Get(cashflow_row).vals[f]))
                => Get(Get(cashflow_row).vals[f]) >= 0

\* capex came out positive from a fact reported positive, which the sign flip
\* alone would have turned negative
C10_Witness ==
    /\ pc = "done" /\ IsSome(cashflow_row)
    /\ IsSome(Get(cashflow_row).vals["capex"])
    /\ Get(Get(cashflow_row).vals["capex"]) > 0
    /\ resolve_duration_field("capex", cik_facts, period_end, cutoff_date, annual_mode) /= None
    /\ Get(resolve_duration_field("capex", cik_facts, period_end, cutoff_date, annual_mode)) < 0

-----------------------------------------------------------------------------
(* Claims about FilingsIndex.get_filings (SpecIndex) *)

\* the end of the cutoff day, 23:59:59
CutoffEnd == Combine(cutoff_date, EndOfDayTime)

\* an entry that nothing but the gate can drop
WellFormedEntries ==
    {e \in IndexEntries(cutoff_date) :
        /\ e.form = "10-K" /\ e.reportDate.k = "date" /\ e.filingDate.k = "date"
        /\ e.acceptanceDateTime.k \in {"missing", "datetime"}}

\* C1: every record get_filings holds or returns was accepted no later than
\* 23:59:59 of the cutoff day, a missing acceptanceDateTime counting as 23:59:59
\* of the filing date; an entry accepted at exactly 23:59:59 of the cutoff day is
\* kept and one accepted at 00:00:00 of the next day is dropped.
C1_IndexGate ==
    /\ \A i \in 1..Len(records) : records[i].acceptance_datetime <= CutoffEnd
    /\ \A e \in WellFormedEntries :
          LET rec == ParseEntry(e, IndexCik, IndexTicker, cutoff_date, ANNUAL_FORM_TYPES)
              acc == IF e.acceptanceDateTime.k = "missing"
                     THEN Combine(e.filingDate.v, EndOfDayTime)
                     ELSE e.acceptanceDateTime.v
          IN /\ IsSome(rec) <=> acc <= CutoffEnd
             /\ IsSome(rec) => Get(rec).acceptance_datetime = acc

C1_Witness ==
    /\ pc = "done" /\ raised = ""
    /\ fallback_kept /\ archive_kept
    /\ Len(records) = 2
    /\ \E i \in 1..Len(records) : records[i].acceptance_datetime = CutoffEnd

-----------------------------------------------------------------------------
(* Claims about build_edgar_snapshot (Spec, SpecGuard) *)

StatementRows == Range(all_income) \cup Range(all_balance) \cup Range(all_cashflow)

\* the filing a statement row was built for is a row of the filings table
FromListedFiling(row) ==
    \E i \in 1..Len(all_filings) :
        /\ all_filings[i].ticker = row.ticker
        /\ all_filings[i].accession = row.accession
        /\ all_filings[i].period_of_report = row.period_end
        /\ DateOf(all_filings[i].acceptance_datetime) = row.asof_date

\* C2: every row of the filings table was accepted no later than 23:59:59 of the
\* cutoff day, every statement row comes from such a filing and has asof_date <=
\* cutoff_date, and every fact whose value filled a row was filed on or before
\* the cutoff date.
C2_SnapshotWithinCutoff ==
    /\ \A i \in 1..Len(all_filings) : all_filings[i].acceptance_datetime <= CutoffEnd
    /\ \A row \in StatementRows : row.asof_date <= cutoff_date /\ FromListedFiling(row)
    /\ \A f \in used_facts : f.filed <= cutoff_date

C2_Witness ==
    /\ pc = "done"
    /\ all_income /= <<>> /\ all_balance /= <<>> /\ all_cashflow /= <<>>
    /\ Len(all_filings) > Len(all_income)
    /\ used_facts /= {}

C5_RequestOverridesConfig ==
    ~req_include_amendments =>
        /\ \A i \in 1..Len(selected) : ~EndsWithAmendmentSuffix(selected[i].form_type)
        /\ \A i \in 1..Len(all_filings) : ~EndsWithAmendmentSuffix(all_filings[i].form_type)

\* the key columns of a statement row (data/schema.py: key_columns)
RowKey(row) == <<row.cik, row.accession, row.period_end>>

KeyUnique(table) ==
    \A i, j \in 1..Len(table) : i /= j => RowKey(table[i]) /= RowKey(table[j])

\* C11: in each statement table collected by build_edgar_snapshot (income,
\* balance, cashflow), no two rows share the key (cik, accession, period_end),
\* whatever the list of requested tickers.
C11_KeyUniqueness ==
    KeyUnique(all_income) /\ KeyUnique(all_balance) /\ KeyUnique(all_cashflow)

\* the rows of a table that belong to one ticker, in order
TickerRows(table, t) == SelectSeq(table, LAMBDA r : r.ticker = t)

\* an iteration of the per-ticker loop (builder.py lines 115-182) is under way
InIteration ==
    pc \in {"get_filings", "primary", "archives", "archive", "select", "fetch_facts",
            "filings", "except"}

\* the step leaves the rows of ticker t as they are, in the four collected tables
RowsKept(t) ==
    /\ TickerRows(all_income', t) = TickerRows(all_income, t)
    /\ TickerRows(all_balance', t) = TickerRows(all_balance, t)
    /\ TickerRows(all_cashflow', t) = TickerRows(all_cashflow, t)
    /\ TickerRows(all_filings', t) = TickerRows(all_filings, t)

\* C12: per-ticker isolation.  No step of the build touches the rows of a
\* ticker other than the one whose iteration is under way, and a failure in an
\* iteration leaves every collected row in place and hands the loop to the next
\* resolved ticker (to the assembly after the last one): the other tickers are
\* processed as if the failing one had not been requested.
C12_PerTickerIsolation ==
    [][/\ \A t \in RequestTickers : (~InIteration \/ t /= CurrentTicker) => RowsKept(t)
       /\ pc = "except" =>
             /\ \A t \in RequestTickers : RowsKept(t)
             /\ ticker_idx' = ticker_idx + 1
             /\ pc' = IF ticker_idx < Len(cik_map) THEN "get_filings" ELSE "assemble"]_vars

\* a build in which the first resolved ticker failed (no filing, or the facts
\* could not be fetched) and the second one has rows in the statement tables
C12_Witness ==
    /\ pc = "done" /\ Len(cik_map) = 2
    /\ \E i \in 1..Len(log) :
          /\ log[i].ticker = cik_map[1].ticker
          /\ log[i].error \in {"FilingNotFoundError", "HTTPError", "XBRLParseError"}
    /\ TickerRows(all_income, cik_map[1].ticker) = <<>>
    /\ TickerRows(all_income, cik_map[2].ticker) /= <<>>
    /\ TickerRows(all_filings, cik_map[2].ticker) /= <<>>

\* the requested tickers without a row in any statement table, in request order
TickersWithoutRows ==
    SelectSeq(req_tickers, LAMBDA t : \A row \in StatementRows : row.ticker /= t)

\* C13: a build for a request with allow_estimates = false, once the registry
\* is loaded, ends by returning its result whatever CIK lookup, missing-filings,
\* XBRL or HTTP failures its tickers met (no exception leaves the call), and the
\* missing_tickers of the coverage report are exactly the requested tickers
\* without a row in any statement table.
C13_ReturnsCoverageReport ==
    (pc = "done" /\ ~req_allow_estimates /\ registry_fetches > 0) =>
        /\ raised = ""
        /\ build_coverage_report(req_tickers, all_income, all_balance,
                                 all_cashflow).missing = TickersWithoutRows

\* the tickers with a row in some table of the result: company_master, filings
\* or a statement table (derived_metrics is computed from the statement rows)
TickersInTables ==
    {r.ticker : r \in Range(company_rows) \cup Range(all_filings) \cup StatementRows}

\* C14: for a resolved ticker whose get_filings raised FilingNotFoundError the
\* build has logged a warning, and the ticker has no row in any table of the
\* result.
C14_FilingNotFoundAbsent ==
    \A i \in 1..Len(log) :
        log[i].error = "FilingNotFoundError" =>
            log[i].level = "warning" /\ log[i].ticker \notin TickersInTables

\* C15: a request with allow_estimates = true is refused at the top of
\* build_edgar_snapshot, whatever the engine config's allow_estimates is: the
\* call ends with the ValueError of assert_pit_safe, and at no moment of it has
\* the client been created, the registry been loaded or a request been sent.
C15_EstimatesRefusedFirst ==
    req_allow_estimates =>
        /\ ~client_created /\ ~request_sent
        /\ registry_fetches = 0 /\ mapper_map = <<>>
        /\ pc = "done" => raised = "ValueError"

\* the refusal happened although the engine config does not allow estimates
C15_Witness ==
    /\ req_allow_estimates /\ ~cfg_allow_estimates
    /\ pc = "done" /\ raised = "ValueError"

-----------------------------------------------------------------------------
(* Claims about EdgarClient (SpecClient) *)

\* the step enters get_json or get_raw with the call c
StartsCall(c) ==
    /\ pc \in {"client_idle", "client_done"}
    /\ calls_made' = calls_made + 1
    /\ call' = Some(c)

LastOutcomeRetryable ==
    \/ last_outcome.error \in {"ConnectionError", "Timeout"}
    \/ last_outcome.error = "" /\ last_outcome.status \in {429, 500, 502, 503, 504}

\* the last GET of the call came back with a 4xx status other than 429
LastOutcomeOther4xx ==
    /\ last_outcome.error = ""
    /\ last_outcome.status >= 400 /\ last_outcome.status < 500
    /\ last_outcome.status /= 429

\* C17: a call that misses the cache dispatches at most 5 GETs; each GET comes
\* after the acquisition of one rate-limit token of its own; an attempt beyond
\* the first is started only after a GET that came back with a connection
\* error, a timeout or a status in {429, 500, 502, 503, 504}; a GET that came
\* back with another 4xx status ends the call with an error, with no retry.
C17_RetryPolicy ==
    /\ gets_dispatched <= max_attempts
    /\ attempt_number <= max_attempts
    /\ tokens_acquired = IF pc = "get" THEN gets_dispatched + 1 ELSE gets_dispatched
    /\ pc \in {"attempt", "get"} => gets_dispatched = attempt_number - 1
    /\ (pc \in {"attempt", "get"} /\ attempt_number > 1) => LastOutcomeRetryable
    /\ LastOutcomeOther4xx => (pc = "client_done" /\ raised = "HTTPError")

\* a call that used all its attempts, the last of them on a timeout
C17_Witness ==
    /\ pc = "client_done" /\ raised = "Timeout"
    /\ gets_dispatched = max_attempts /\ tokens_acquired = max_attempts

\* C18: get_json/get_raw end with RateLimitError exactly when every attempt of
\* the call was used up and each of them came back with HTTP 429.
C18_RateLimitErrorOnExhaustion ==
    pc = "client_done" =>
        (raised = "RateLimitError" <=> (gets_dispatched = max_attempts /\ only_429))

-----------------------------------------------------------------------------
(* Claims about TokenBucketRateLimiter (SpecLimiter) *)

\* the threads inside the with block of acquire
InLock == {t \in Threads : thread_pc[t] \in {"refill", "check", "deduct", "no_tokens"}}

\* C19: under every interleaving of threads calling acquire(n), the token
\* count stays within [0, burst]; at most one thread is inside the locked
\* block, and when a thread deducts its n tokens the count is still at least n,
\* as its check found it; the deductions are exactly the tokens granted, so that
\* the tokens granted up to any time never exceed burst + rate x elapsed time.
C19_TokenBucketSafe ==
    /\ tokens >= 0 /\ tokens <= burst
    /\ \A t \in InLock : lock = t
    /\ \A t \in Threads : thread_pc[t] = "deduct" => tokens >= thread_n[t]
    /\ tokens + granted <= burst + rate * last_refill
    /\ granted <= burst + rate * now

\* the first burst has been granted and time has passed; a thread is about to
\* deduct refilled tokens inside the locked block while another thread waits
\* for the lock
C19_Witness ==
    /\ now > 0 /\ granted >= burst
    /\ \E t, u \in Threads :
          /\ t /= u
          /\ thread_pc[t] = "deduct" /\ thread_n[t] = MaxAsk
          /\ thread_pc[u] = "waiting"

-----------------------------------------------------------------------------
(* Claims about CIKMapper (SpecMapper) *)

\* C20: over any sequence of load, resolve, resolve_many and company_name calls
\* on one mapper, whatever the registry document, the registry URL is fetched
\* at most once, and once it has been fetched no call changes the map.
C20_RegistryLoadedOnce ==
    [][/\ registry_fetches' <= 1
       /\ registry_fetches > 0 => (mapper_map' = mapper_map /\ name_map' = name_map)]_vars

-----------------------------------------------------------------------------
(* Claims about the post-processing of the tables (SpecPost) *)

\* the row of the input table, as the output row carries it
WithoutIdentity(row) == [f \in DOMAIN row \ {"identity_ok"} |-> row[f]]

AllTotalsPresent(row) ==
    row.total_assets /= None /\ row.total_liabilities /= None /\ row.total_equity /= None

\* C21: check_balance_sheet_identity keeps the rows and their order and adds
\* identity_ok; on a row with the three totals present identity_ok is whether
\* |A - (L + E)| / |A| <= 0.01, and on a row where a total is missing
\* identity_ok is null.
C21_IdentityFlag ==
    pc = "checked" =>
        /\ Len(checked_df.rows) = Len(balance_df.rows)
        /\ \A i \in DOMAIN balance_df.rows :
              /\ WithoutIdentity(checked_df.rows[i]) = balance_df.rows[i]
              /\ (AllTotalsPresent(balance_df.rows[i]) /\ Get(balance_df.rows[i].total_assets) /= 0) =>
                    checked_df.rows[i].identity_ok =
                        Some(100 * Abs(Get(balance_df.rows[i].total_assets)
                                       - (Get(balance_df.rows[i].total_liabilities)
                                          + Get(balance_df.rows[i].total_equity)))
                             <= Abs(Get(balance_df.rows[i].total_assets)))
              /\ ~AllTotalsPresent(balance_df.rows[i]) =>
                    checked_df.rows[i].identity_ok = None

\* the value of a balance column on a row of derived_metrics
DebtInput(row, name) == IF row.merged = None THEN None ELSE Get(row.merged)[name]

\* C22: net_debt of a derived row is long_term_debt + short_term_debt -
\* cash_and_equivalents with missing summands as zero when at least one of the
\* two debt components is present on the row, and null when both are missing.
C22_NetDebt ==
    pc = "derived" =>
        \A i \in DOMAIN derived_df :
            IF DebtInput(derived_df[i], "long_term_debt") = None
               /\ DebtInput(derived_df[i], "short_term_debt") = None
            THEN derived_df[i].net_debt = None
            ELSE derived_df[i].net_debt =
                    Some(FillZero(DebtInput(derived_df[i], "long_term_debt"))
                         + FillZero(DebtInput(derived_df[i], "short_term_debt"))
                         - FillZero(DebtInput(derived_df[i], "cash_and_equivalents")))

\* the tables of the result that validate_table finds violations in
OffendingTables ==
    {n \in DOMAIN result_tables :
        ~IsSkipped(result_tables[n]) /\ validate_table(result_tables[n], n) /= {}}

\* C23: schema violations are fatal when validate = true (write_snapshot raises
\* SchemaValidationError and does not write the offending table), and with
\* validate = false they are only logged as warnings.
C23_ViolationsFatalWhenValidating ==
    (pc = "written" /\ OffendingTables /= {}) =>
        IF validate
        THEN /\ raised = "SchemaValidationError"
             /\ \A n \in OffendingTables : \A i \in DOMAIN written : written[i] /= n
        ELSE /\ raised /= "SchemaValidationError"
             /\ \A n \in OffendingTables :
                   \E i \in DOMAIN write_log :
                       write_log[i] = [kind |-> "validation", table |-> n]

-----------------------------------------------------------------------------
(* Further claims about select_best_fact_for_period (SpecFact) *)

\* the candidates filed on or before the cutoff
FiledWithinCutoff == {fact_list[i] : i \in {j \in DOMAIN fact_list : fact_list[j].filed <= cutoff_date}}

ExactCandidates == {f \in FiledWithinCutoff : f.end = period_end}

FuzzyCandidates == {f \in FiledWithinCutoff : Abs(f.end - period_end) <= 7}

ClosestCandidates ==
    {f \in FuzzyCandidates :
        \A g \in FuzzyCandidates : Abs(f.end - period_end) <= Abs(g.end - period_end)}

\* the framed facts of a set if it has any, the whole set otherwise
FramedIfAny(S) == IF \E f \in S : HasFrame(f) THEN {f \in S : HasFrame(f)} ELSE S

\* the call returned a latest-filed fact of the set S
BestIsLatestOf(S) ==
    /\ best /= None
    /\ Get(best) \in S
    /\ \A f \in S : f.filed <= Get(best).filed

\* C24: among the candidates filed on or before the cutoff, an exact match is
\* returned if there is one (the latest-filed, of the framed ones if any);
\* otherwise the latest-filed of those at the least day-distance within 7 days
\* (of the framed ones at that distance if any); otherwise nothing.
C24_ExactThenClosestFuzzy ==
    pc = "done" =>
        IF ExactCandidates /= {} THEN BestIsLatestOf(FramedIfAny(ExactCandidates))
        ELSE IF FuzzyCandidates /= {} THEN BestIsLatestOf(FramedIfAny(ClosestCandidates))
        ELSE best = None

\* the fuzzy case: no exact candidate, and the fact returned lies nearer to the
\* period end than a framed, later-filed candidate exactly 7 days off
C24_Witness ==
    /\ pc = "done"
    /\ ExactCandidates = {}
    /\ best /= None
    /\ ~HasFrame(Get(best))
    /\ \E f \in FuzzyCandidates :
          /\ Abs(f.end - period_end) = 7
          /\ Abs(Get(best).end - period_end) < 7
          /\ HasFrame(f)
          /\ f.filed > Get(best).filed

-----------------------------------------------------------------------------
(* Claims about field resolution and the row builders (SpecResolve, SpecRows) *)

\* the positions of the tags of a field for which the period-type filter and
\* the best-fact selection yield a fact
YieldingTags(field, ctx) ==
    {k \in 1..Len(FIELD_TO_MAPPING(field).tags) :
        IsSome(BestOfTag(FIELD_TO_MAPPING(field).tags, k, cik_facts, ctx, period_end,
                         cutoff_date, annual_mode))}

\* the value of the fact the tag at position k yields, with the field's sign
ValueOfTag(field, ctx, k) ==
    Get(BestOfTag(FIELD_TO_MAPPING(field).tags, k, cik_facts, ctx, period_end, cutoff_date,
                  annual_mode)).value
    * (IF FIELD_TO_MAPPING(field).sign_flip THEN -1 ELSE 1)

\* the value from the highest-priority tag that yields a fact, null without one
FirstYield(field, ctx) ==
    IF YieldingTags(field, ctx) = {} THEN None
    ELSE Some(ValueOfTag(field, ctx,
                 CHOOSE k \in YieldingTags(field, ctx) :
                     \A j \in YieldingTags(field, ctx) : k <= j))

BalanceTotals == {"total_assets", "total_liabilities", "total_equity"}

\* C25: the value of a field is the one of the first tag, in priority order,
\* for which filter and best-fact selection yield a fact, times -1 when the
\* mapping flips the sign, and null only when no tag yields one.  Stated on the
\* values the income row holds for the duration fields (ebitda apart, which
\* has a fallback of its own) and the balance row for the instant fields (a
\* total left unresolved apart, which the identity may fill).
C25_FirstYieldingTag ==
    /\ pc \in {"balance", "cashflow", "done"} =>
          \A f \in FieldsOfContext("duration") \ {"ebitda"} :
              IF income_row = None THEN FirstYield(f, "duration") = None
              ELSE Get(income_row).vals[f] = FirstYield(f, "duration")
    /\ pc \in {"cashflow", "done"} =>
          \A f \in FieldsOfContext("instant") :
              IF balance_row = None THEN FirstYield(f, "instant") = None
              ELSE \/ Get(balance_row).vals[f] = FirstYield(f, "instant")
                   \/ f \in BalanceTotals /\ FirstYield(f, "instant") = None

\* capex comes from its second tag, sign flipped, while the facts of its first
\* tag are of the wrong period type or filed after the cutoff; equity comes
\* from its second tag, no fact of the first being there
C25_Witness ==
    /\ pc = "done"
    /\ <<"us-gaap", "PaymentsToAcquirePropertyPlantAndEquipment">> \in DOMAIN cik_facts
    /\ <<"us-gaap", "PaymentsForCapitalImprovements">> \in DOMAIN cik_facts
    /\ income_row /= None
    /\ Get(income_row).vals["capex"] = Some(0 - 7)
    /\ balance_row /= None
    /\ Get(balance_row).vals["total_equity"] = Some(4)

\* a total as _resolve_instant_field resolved it for the balance row
ResolvedTotal(f) == resolve_instant_field(f, cik_facts, period_end, cutoff_date)

UnresolvedTotals == {f \in BalanceTotals : ResolvedTotal(f) = None}

\* the value the balance row holds for a field
BalanceVal(f) == Get(balance_row).vals[f]

\* C26: with exactly one of the three totals unresolved, build_balance_rows
\* sets it from the other two, which stay as resolved, so that assets =
\* liabilities + equity holds exactly on the row; with none or more than one
\* unresolved, the row holds the totals as resolved (a row is returned only if
\* some field was found).
C26_IdentityFallback ==
    pc \in {"cashflow", "done"} =>
        IF Cardinality(UnresolvedTotals) = 1
        THEN /\ balance_row /= None
             /\ \A f \in BalanceTotals \ UnresolvedTotals : BalanceVal(f) = ResolvedTotal(f)
             /\ \A f \in BalanceTotals : BalanceVal(f) /= None
             /\ Get(BalanceVal("total_assets")) =
                   Get(BalanceVal("total_liabilities")) + Get(BalanceVal("total_equity"))
        ELSE balance_row /= None =>
                \A f \in BalanceTotals : BalanceVal(f) = ResolvedTotal(f)

\* liabilities is the one unresolved total and is set to assets - equity
C26_Witness ==
    /\ pc = "done"
    /\ UnresolvedTotals = {"total_liabilities"}
    /\ balance_row /= None
    /\ BalanceVal("total_assets") = Some(8)
    /\ BalanceVal("total_equity") = Some(3)
    /\ BalanceVal("total_liabilities") = Some(5)

-----------------------------------------------------------------------------
(* Claims about filter_facts_by_period_type (SpecFilter) *)

\* the day count of a fact that has a start
DayCount(f) == f.end - Get(f.start)

\* C27: for instant context the filter keeps exactly the facts without a
\* start; for duration context exactly the facts with a start whose day count
\* lies in [330, 400] when annual, in [75, 100] when quarterly.
C27_PeriodTypeFilter ==
    pc = "filtered" =>
        filtered = SelectSeq(fact_list,
                      LAMBDA f : IF filter_context = "instant" THEN f.start = None
                                 ELSE /\ f.start /= None
                                      /\ IF annual_mode
                                         THEN 330 <= DayCount(f) /\ DayCount(f) <= 400
                                         ELSE 75 <= DayCount(f) /\ DayCount(f) <= 100)

\* an annual duration call that keeps a fact of 330 days and drops one of 401
C27_Witness ==
    /\ pc = "filtered"
    /\ filter_context = "duration" /\ annual_mode
    /\ Len(fact_list) = 2 /\ Len(filtered) = 1
    /\ DayCount(filtered[1]) = 330
    /\ \E i \in DOMAIN fact_list : fact_list[i].start /= None /\ DayCount(fact_list[i]) = 401

-----------------------------------------------------------------------------
(* Claims about the archive loop of get_filings *)

\* the descriptor's filingFrom is a date after the cutoff
StartsAfterCutoff(archive, cutoff) ==
    archive.filingFrom.k = "date" /\ archive.filingFrom.v > cutoff

\* filingFrom or filingTo is missing, or is not an ISO date
DatesMalformed(archive) == archive.filingFrom.k /= "date" \/ archive.filingTo.k /= "date"

\* the client was asked for the i-th archive, whether the request succeeded or not
ArchiveRequested(i) == archive_outcomes[i] \in {"fetched", "failed"}

\* C28: a named archive whose filingFrom is after the cutoff date is never
\* fetched and every other named archive is fetched, where a filingFrom or
\* filingTo that is missing or does not parse never makes get_filings raise
\* and always has the archive fetched
C28_ArchiveFetchedUnlessAfterCutoff ==
    /\ pc = "archives" /\ archive_files /= <<>> => raised = ""
    /\ \A i \in 1..Len(archive_outcomes) :
          archive_files[i].name /= "" =>
             /\ DatesMalformed(archive_files[i]) => ArchiveRequested(i)
             /\ ~StartsAfterCutoff(archive_files[i], cutoff_date) => ArchiveRequested(i)
             /\ StartsAfterCutoff(archive_files[i], cutoff_date)
                   /\ ~DatesMalformed(archive_files[i]) => ~ArchiveRequested(i)

\* of two named archives that start after the cutoff, the one whose dates
\* parse was passed over and the one whose filingTo does not parse was fetched
C28_Witness ==
    /\ Len(archive_outcomes) = 2
    /\ \A i \in 1..2 : archive_files[i].name /= ""
                         /\ StartsAfterCutoff(archive_files[i], cutoff_date)
    /\ ~DatesMalformed(archive_files[1]) /\ archive_outcomes[1] = "skipped"
    /\ archive_files[2].filingTo.k = "bad" /\ archive_outcomes[2] = "fetched"

-----------------------------------------------------------------------------
(* Claims about the rows build_income_rows returns *)

\* the value columns of INCOME_SCHEMA (data/schema.py, lines 138-151)
IncomeStatementFields ==
    {"revenue", "cost_of_revenue", "gross_profit", "operating_expenses", "ebit", "ebitda",
     "interest_expense", "pretax_income", "income_tax_expense", "net_income", "eps_basic",
     "eps_diluted", "shares_basic", "shares_diluted"}

\* C29: every row build_income_rows returns carries a value in at least one
\* income-statement field; with no income fact found for the period the
\* builder returns None
C29_IncomeRowHasIncomeField ==
    income_row /= None => \E f \in IncomeStatementFields : IsSome(Get(income_row).vals[f])

-----------------------------------------------------------------------------
(* Claims about the termination of acquire *)

\* the caller is inside acquire
InAcquire == thread_pc[Caller] \notin {"idle", "returned"}

\* C30: on every rate limiter that construction accepts (0 < rps <= 10, burst
\* = rps), a call of acquire(1) returns in the end, when time advances and
\* the caller is scheduled fairly
C30_AcquireReturns == InAcquire ~> thread_pc[Caller] = "returned"
====
